---- MODULE Spec2Model ----
(***************************************************************************)
(* Component runtime of tiny-systems/common-module: the nodes kv, signal,   *)
(* cron, ticker, scheduler, async, inject, split and group-by as state      *)
(* machines.  One instance of one component kind is driven at a time;       *)
(* `node` names the kind.  Every Handle invocation is one action;           *)
(* background goroutines (signal's runBlockingHandler, cron's run,          *)
(* ticker's emit, the scheduler's run and waitTask, async's workers)        *)
(* advance by their own actions between the points where they take or       *)
(* release a lock or call the emit handler, and split's Handle advances     *)
(* from one handler call to the next.                                       *)
(***************************************************************************)
EXTENDS Integers, Sequences, FiniteSets, TLC

VARIABLES
    node,            \* component kind of the instance under test
    call,            \* the Handle invocation of the most recent step: port, leader flag,
                     \* message (NoCall when the step was a goroutine's)
    ret,             \* what that invocation returned (Nil or an error text)
    emits,           \* the emit-handler calls made by the most recent step, in order
    heldAtEmit,      \* the state mutexes that step held while it made those calls
    metadata,        \* host side: TinyNode.Status.Metadata (string -> string)
    \* ---- kv.Component
    kvSettings,      \* settings
    records,         \* records   map[string][]byte
    storeUsed,       \* storeUsed
    \* ---- signal.Component
    sigSettings,     \* settings.Context
    sigState,        \* state (State.Context)
    sigIsRunning,    \* isRunning
    activeHandlerCancel, \* 0 = nil, else the goroutine whose cancel func it is
    sigWorkers,      \* runBlockingHandler goroutines: id -> [pc, ctx, cancelled]
    hostState,       \* host side: TinyState data of the node, or NoState
    stateWrites,     \* contexts of the state writes the host has accepted
    sinceSend,       \* history since the leader last handled a Send: reset (a Reset was
                     \* handled), emitting (the goroutines that began their emit on Out),
                     \* ended (one of those emits has returned)
    \* ---- cron.Component
    cronSettings,    \* settings (Context, Schedule)
    cronCancel,      \* cancel: 0 = nil, else the run goroutine that set it
    nextTick,        \* nextTick (0 = zero time)
    settingsFromPort,\* settingsFromPort
    lastError,       \* lastError
    runMu,           \* runMu: 0 = free, else the run goroutine holding it
    cronWorkers,     \* run goroutines: id -> [pc, cancelled, period]
    cronStopped,     \* history: "none", or what the leader's last Stop found when no
                     \* Start, resume or pod restart came since: "idle" (cancel was
                     \* nil) or "cancelled" (it called cancel)
    now,             \* wall clock (minutes for cron, seconds for the scheduler)
    \* ---- ticker.Component
    tkSettings,      \* settings (Context, Delay)
    cancelFunc,      \* cancelFunc: 0 = nil, else the emit goroutine that set it
    runLock,         \* runLock: 0 = free, else the emit goroutine holding it
    tkWorkers,       \* emit goroutines: id -> [pc, cancelled, parent, timer]
    tkStopped,       \* history, as cronStopped: "none", "idle" or "cancelled"
    \* ---- scheduler.Component
    schSettings,     \* settings
    schCancelFunc,   \* cancelFunc: 0 = nil, else the run invocation that set it
    schRunCtx,       \* runCtx: 0 = nil, else the run invocation whose context it is
    schRunLock,      \* runLock: 0 = free, else the run invocation holding it
    schRuns,         \* invocations of run, numbered as they arrive: id -> [pc, cancelled]
    tasks,           \* tasks: task id -> waitTask goroutine of the *task stored
    schWaits,        \* waitTask goroutines: id -> [task, stopped, pc, ctx]
    schAcks,         \* Handle calls on the Tasks port that have yet to emit their ack
    \* ---- async.Component
    asyncSettings,   \* settings
    semaphore,       \* semaphore: capacity and number of slots taken of the channel
    asyncWorkers,    \* background goroutines: id -> [pc, ctx]
    \* ---- inject.Component
    injSettings,     \* settings
    injConfig,       \* config
    injFromPort,     \* settingsFromPort
    \* ---- split.Component (no fields): the Handle invocation in progress
    splitPc,         \* "idle", "emitting" (inside a handler call on Out) or "done"
    splitMsg,        \* its msg argument
    splitOut,        \* the handler calls it has made, in order
    splitResults,    \* what those calls returned, in order
    \* ---- groupby.Component
    gbSettings       \* settings

shared   == <<node, call, ret, emits, heldAtEmit, metadata>>
kvVars   == <<kvSettings, records, storeUsed>>
sigVars  == <<sigSettings, sigState, sigIsRunning, activeHandlerCancel, sigWorkers,
              hostState, stateWrites, sinceSend>>
cronVars == <<cronSettings, cronCancel, nextTick, settingsFromPort, lastError, runMu,
              cronWorkers, cronStopped, now>>
tkVars   == <<tkSettings, cancelFunc, runLock, tkWorkers, tkStopped>>
schVars  == <<schSettings, schCancelFunc, schRunCtx, schRunLock, schRuns, tasks, schWaits,
              schAcks>>
asyncVars == <<asyncSettings, semaphore, asyncWorkers>>
injVars  == <<injSettings, injConfig, injFromPort>>
splitVars == <<splitPc, splitMsg, splitOut, splitResults>>
gbVars   == <<gbSettings>>
vars     == <<shared, kvVars, sigVars, cronVars, tkVars, schVars, asyncVars, injVars, splitVars, gbVars>>

-----------------------------------------------------------------------------
(* Values shared by all components *)

Nil == "<nil>"

ReconcilePort == "_reconcile"
SettingsPort  == "_settings"
ControlPort   == "_control"
StatePort     == "_state"

\* strings.HasPrefix
HasPrefix(s, prefix) ==
    Len(s) >= Len(prefix) /\ SubSeq(s, 1, Len(prefix)) = prefix

RECURSIVE Repeat(_, _)
\* strings.Repeat
Repeat(s, n) ==
    IF n = 0 THEN ""
    ELSE IF n % 2 = 0 THEN LET h == Repeat(s, n \div 2) IN h \o h
    ELSE s \o Repeat(s, n - 1)

\* a Go map as a function with a finite domain
EmptyMap == [x \in {} |-> ""]
MapSet(m, k, v) == [x \in (DOMAIN m) \cup {k} |-> IF x = k THEN v ELSE m[x]]
MapDelete(m, k) == [x \in (DOMAIN m) \ {k} |-> m[x]]
MapHas(m, k) == k \in DOMAIN m

Quote(s) == "\"" \o s \o "\""


\* one emit-handler call
Emit(port, data) == [port |-> port, data |-> data]
\* handler(ctx, ReconcilePort, nil): ask the host to re-notify the ports
Redraw == Emit(ReconcilePort, [op |-> "notify"])

\* a context that is leader whatever the call says
AlwaysLeader(leader) == TRUE

\* utils.IsLeader(ctx); leader is the flag the call's context carries
IsLeader(leader) == leader

\* `call` when the most recent step was not a Handle invocation
NoCall == [port |-> "", leader |-> FALSE, msg |-> Nil]

-----------------------------------------------------------------------------
(* kv: metadata-backed key-value store                                      *)

StorePort       == "store"
QueryPort       == "query"
QueryResultPort == "query_result"
StoreAckPort    == "store_ack"
OpStore         == "store"
OpDelete        == "delete"
metadataPrefix  == "kv-"
defaultMaxRecords  == 100
maxRecordSizeBytes == 32 * 1024

\* a document value is tagged with its Go type: only strings pass pkVal.(string)
Str(s) == <<"string", s>>
Num(s) == <<"number", s>>
IsString(v) == v[1] = "string"

\* encoding/json writes the keys of a map in sorted order
FieldOrder == <<"data", "id", "key", "status">>
JSONValue(v) == IF IsString(v) THEN Quote(v[2]) ELSE v[2]

RECURSIVE MarshalFields(_, _, _)
MarshalFields(doc, i, first) ==
    IF i > Len(FieldOrder) THEN ""
    ELSE IF FieldOrder[i] \in DOMAIN doc
         THEN (IF first THEN "" ELSE ",")
              \o Quote(FieldOrder[i]) \o ":" \o JSONValue(doc[FieldOrder[i]])
              \o MarshalFields(doc, i + 1, FALSE)
         ELSE MarshalFields(doc, i + 1, first)

\* json.Marshal(req.Document)
Marshal(doc) == "{" \o MarshalFields(doc, 1, TRUE) \o "}"

\* Instance()
KVInitSettings ==
    [Document |-> [f \in {"id"} |-> Str("ID")], PrimaryKey |-> "id",
     MaxRecords |-> defaultMaxRecords, EnableStoreAck |-> FALSE]

\* getControl()
getControl(recs) == [Records |-> Cardinality(DOMAIN recs)]

\* the part of every kv action that is not kv's own state
KVFrame == /\ node' = node
           /\ heldAtEmit' = {}
           /\ UNCHANGED <<sigVars, cronVars, tkVars, schVars, asyncVars, injVars, splitVars, gbVars>>

\* handleSettings
HandleSettingsKV(in) ==
    /\ call' = [port |-> SettingsPort, leader |-> FALSE, msg |-> in]
    /\ emits' = <<>>
    /\ IF Cardinality(DOMAIN in.Document) = 0
       THEN ret' = "document must have at least one field" /\ UNCHANGED kvSettings
       ELSE IF in.PrimaryKey = ""
       THEN ret' = "primary key cannot be empty" /\ UNCHANGED kvSettings
       ELSE IF in.PrimaryKey \notin DOMAIN in.Document
       THEN ret' = "primary key not found in document" /\ UNCHANGED kvSettings
       ELSE /\ ret' = Nil
            /\ kvSettings' = IF in.MaxRecords <= 0
                             THEN [in EXCEPT !.MaxRecords = defaultMaxRecords]
                             ELSE in
    /\ UNCHANGED <<records, storeUsed, metadata>>
    /\ KVFrame

\* the kv-* entries of a metadata map, keyed without the prefix
KVEntries(m) ==
    [key \in {SubSeq(k, Len(metadataPrefix) + 1, Len(k)) :
                 k \in {x \in DOMAIN m : HasPrefix(x, metadataPrefix)}}
        |-> m[metadataPrefix \o key]]

\* the loop of handleReconcile: records[key] = []byte(v) for every kv-* entry
LoadRecords(recs, m) ==
    LET e == KVEntries(m)
    IN  [key \in (DOMAIN recs) \cup (DOMAIN e) |->
            IF key \in DOMAIN e THEN e[key] ELSE recs[key]]

\* handleReconcile without the storeUsed check
HandleReconcileKVUnguarded(msg) ==
    /\ call' = [port |-> ReconcilePort, leader |-> FALSE, msg |-> msg]
    /\ emits' = <<>>
    /\ ret' = Nil
    /\ IF msg.kind # "TinyNode"
       THEN UNCHANGED records
       ELSE records' = LoadRecords(records, msg.Metadata)
    /\ UNCHANGED <<kvSettings, storeUsed, metadata>>
    /\ KVFrame

\* handleReconcile
HandleReconcileKV(msg) ==
    /\ call' = [port |-> ReconcilePort, leader |-> FALSE, msg |-> msg]
    /\ emits' = <<>>
    /\ ret' = Nil
    /\ IF msg.kind # "TinyNode" \/ storeUsed
       THEN UNCHANGED records
       ELSE records' = LoadRecords(records, msg.Metadata)
    /\ UNCHANGED <<kvSettings, storeUsed, metadata>>
    /\ KVFrame

\* a mutation that deletes nothing
KeepKVMetadata(m) == m

\* the mutation of handleControl: delete every kv-* key
ClearKVMetadata(m) == [k \in {x \in DOMAIN m : ~HasPrefix(x, metadataPrefix)} |-> m[k]]

\* handleControl without `c.storeUsed = false`
HandleControlKVKeepGuard(in) ==
    /\ call' = [port |-> ControlPort, leader |-> FALSE, msg |-> in]
    /\ ret' = Nil
    /\ IF ~in.Reset
       THEN /\ emits' = <<>>
            /\ UNCHANGED <<records, storeUsed, metadata>>
       ELSE /\ records' = EmptyMap
            /\ UNCHANGED storeUsed
            /\ metadata' = ClearKVMetadata(metadata)
            /\ emits' = <<Emit(ReconcilePort, [op |-> "clear"]),
                          Emit(ControlPort, getControl(EmptyMap))>>
    /\ UNCHANGED kvSettings
    /\ KVFrame

\* handleControl
HandleControlKV(in) ==
    /\ call' = [port |-> ControlPort, leader |-> FALSE, msg |-> in]
    /\ ret' = Nil
    /\ IF ~in.Reset
       THEN /\ emits' = <<>>
            /\ UNCHANGED <<records, storeUsed, metadata>>
       ELSE /\ records' = EmptyMap
            /\ storeUsed' = FALSE
            /\ metadata' = ClearKVMetadata(metadata)
            /\ emits' = <<Emit(ReconcilePort, [op |-> "clear"]),
                          Emit(ControlPort, getControl(EmptyMap))>>
    /\ UNCHANGED kvSettings
    /\ KVFrame

\* handleStore up to the switch: the primary key of the request, or the error
StoreKeyError(req) ==
    LET pk == kvSettings.PrimaryKey
    IN  IF pk \notin DOMAIN req.Document THEN "primary key not found in document"
        ELSE IF ~IsString(req.Document[pk]) THEN "primary key must be a string"
        ELSE IF req.Document[pk][2] = "" THEN "primary key cannot be empty"
        ELSE Nil

\* handleStore; ack is what the store_ack emit returns when that port is enabled
HandleStore(req, ack) ==
    /\ call' = [port |-> StorePort, leader |-> FALSE, msg |-> req]
    /\ IF StoreKeyError(req) # Nil
       THEN /\ ret' = StoreKeyError(req)
            /\ emits' = <<>>
            /\ UNCHANGED <<records, storeUsed, metadata>>
       ELSE LET pkStr   == req.Document[kvSettings.PrimaryKey][2]
                metaKey == metadataPrefix \o pkStr
                data    == Marshal(req.Document)
                tail(recs) ==
                    <<Emit(ControlPort, getControl(recs))>>
                    \o (IF kvSettings.EnableStoreAck
                        THEN <<Emit(StoreAckPort, [Context |-> req.Context, Request |-> req])>>
                        ELSE <<>>)
                result == IF kvSettings.EnableStoreAck THEN ack ELSE Nil
            IN  /\ storeUsed' = TRUE
                /\ CASE req.Operation = OpStore ->
                          IF Len(data) > maxRecordSizeBytes
                          THEN /\ ret' = "document too large"
                               /\ emits' = <<>>
                               /\ UNCHANGED <<records, metadata>>
                          ELSE IF pkStr \notin DOMAIN records
                                  /\ Cardinality(DOMAIN records) >= kvSettings.MaxRecords
                          THEN /\ ret' = "store full"
                               /\ emits' = <<>>
                               /\ UNCHANGED <<records, metadata>>
                          ELSE /\ records' = MapSet(records, pkStr, data)
                               /\ metadata' = MapSet(metadata, metaKey, data)
                               /\ emits' = <<Emit(ReconcilePort,
                                                  [op |-> "set", key |-> metaKey, value |-> data])>>
                                           \o tail(records')
                               /\ ret' = result
                     [] req.Operation = OpDelete ->
                          /\ records' = MapDelete(records, pkStr)
                          /\ metadata' = MapDelete(metadata, metaKey)
                          /\ emits' = <<Emit(ReconcilePort, [op |-> "delete", key |-> metaKey])>>
                                      \o tail(records')
                          /\ ret' = result
                     [] OTHER ->
                          /\ ret' = "unknown operation"
                          /\ emits' = <<>>
                          /\ UNCHANGED <<records, metadata>>
    /\ UNCHANGED kvSettings
    /\ KVFrame


\* the bytes keys are made of, in ascending order
Alphabet == "0123456789abcdefghijklmnopqrstuvwxyz"

RECURSIVE StringLess(_, _)
\* s < t for Go strings: bytewise lexicographic
StringLess(s, t) ==
    IF t = "" THEN FALSE
    ELSE IF s = "" THEN TRUE
    ELSE LET rank(ch) == CHOOSE i \in 1..Len(Alphabet) : SubSeq(Alphabet, i, i) = ch
             a == rank(SubSeq(s, 1, 1))
             b == rank(SubSeq(t, 1, 1))
         IN  IF a # b THEN a < b
             ELSE StringLess(SubSeq(s, 2, Len(s)), SubSeq(t, 2, Len(t)))

RECURSIVE keysDescending(_)
\* the keys of the records, greatest first
keysDescending(recs) ==
    IF DOMAIN recs = {} THEN <<>>
    ELSE LET m == CHOOSE x \in DOMAIN recs :
                      \A y \in (DOMAIN recs) \ {x} : StringLess(y, x)
         IN  <<m>> \o keysDescending(MapDelete(recs, m))

RECURSIVE sortedKeys(_)
\* sortedKeys: the keys of the records after sort.Strings
sortedKeys(recs) ==
    IF DOMAIN recs = {} THEN <<>>
    ELSE LET m == CHOOSE x \in DOMAIN recs :
                      \A y \in (DOMAIN recs) \ {x} : StringLess(x, y)
         IN  <<m>> \o sortedKeys(MapDelete(recs, m))

(* kv: the messages the instance is driven with *)

BigValue == Repeat("x", 33 * 1024)

DocA  == [id |-> Str("a"), status |-> Str("UP")]
DocA2 == [id |-> Str("a"), status |-> Str("DOWN")]
DocB  == [id |-> Str("b"), key |-> Str("a")]
DocC  == [id |-> Str("c")]

StoreDocs ==
    { DocA, DocA2, DocB, DocC,
      [id |-> Str("")],
      [id |-> Num("7")],
      [status |-> Str("UP")],
      [id |-> Str("c"), data |-> Str(BigValue)] }

StoreRequests ==
    [Context : {"ctx"}, Operation : {OpStore}, Document : StoreDocs]
    \cup [Context : {"ctx"}, Operation : {OpDelete},
          Document : {DocA, DocB, [id |-> Str("c"), data |-> Str(BigValue)], [status |-> Str("UP")]}]
    \cup [Context : {"ctx"}, Operation : {"purge"}, Document : {DocA}]

AckResults == {Nil, "downstream error"}

KVSettingsIn ==
    { [Document |-> EmptyMap, PrimaryKey |-> "id", MaxRecords |-> 1, EnableStoreAck |-> FALSE],
      [Document |-> DocA, PrimaryKey |-> "", MaxRecords |-> 1, EnableStoreAck |-> FALSE],
      [Document |-> DocA, PrimaryKey |-> "key", MaxRecords |-> 1, EnableStoreAck |-> FALSE],
      [Document |-> DocA, PrimaryKey |-> "id", MaxRecords |-> 1, EnableStoreAck |-> FALSE],
      [Document |-> DocA, PrimaryKey |-> "id", MaxRecords |-> 2, EnableStoreAck |-> TRUE],
      [Document |-> DocB, PrimaryKey |-> "key", MaxRecords |-> 0, EnableStoreAck |-> FALSE] }

KVControlIn == [Records : {0}, Reset : BOOLEAN]

\* metadata snapshots a delayed reconcile may carry
StaleMetadata ==
    { EmptyMap,
      "kv-a" :> "{\"id\":\"a\",\"status\":\"STALE\"}",
      ("kv-a" :> "{\"id\":\"a\",\"status\":\"UP\"}")
          @@ ("kv-b" :> "{\"id\":\"b\",\"status\":\"UP\"}")
          @@ ("kv-c" :> "{\"id\":\"c\"}"),
      ("owner" :> "flow") @@ ("kv-c" :> "not json") }

TinyNode(m) == [kind |-> "TinyNode", Metadata |-> m]
NotATinyNode == [kind |-> "other", Metadata |-> EmptyMap]

(* kv: queries *)

\* the JSON objects a record can hold, each with its encoding: the documents of
\* StoreDocs and the objects of StaleMetadata
JSONDocs ==
    [d \in StoreDocs \cup { [id |-> Str("a"), status |-> Str("STALE")],
                            [id |-> Str("b"), status |-> Str("UP")] }
        |-> Marshal(d)]

\* json.Unmarshal(data, &doc) / ajson.Unmarshal(data): the object whose encoding
\* data is, or an error
UnmarshalDoc(data) ==
    IF \E d \in DOMAIN JSONDocs : JSONDocs[d] = data
    THEN [ok |-> TRUE, doc |-> CHOOSE d \in DOMAIN JSONDocs : JSONDocs[d] = data]
    ELSE [ok |-> FALSE, doc |-> EmptyMap]

\* ajson.Eval(node, query) followed by Unpack, for the expressions
\* `$.field == 'literal'` and `$.field`; any other text does not evaluate.
\* A path that selects nothing is null, and == of values of different types is false.
EvalQuery(doc, query) ==
    LET fields   == {FieldOrder[i] : i \in 1..Len(FieldOrder)}
        literals == {"UP", "DOWN", "a"}
        isEq(f, l) == query = "$." \o f \o " == '" \o l \o "'"
    IN  IF \E f \in fields, l \in literals : isEq(f, l)
        THEN LET f == CHOOSE x \in fields : \E l \in literals : isEq(x, l)
                 l == CHOOSE y \in literals : isEq(f, y)
             IN  [ok |-> TRUE,
                  v |-> IF f \in DOMAIN doc /\ IsString(doc[f]) /\ doc[f][2] = l
                        THEN <<"bool", "true">> ELSE <<"bool", "false">>]
        ELSE IF \E f \in fields : query = "$." \o f
        THEN LET f == CHOOSE x \in fields : query = "$." \o x
             IN  [ok |-> TRUE, v |-> IF f \in DOMAIN doc THEN doc[f] ELSE <<"null", "">>]
        ELSE [ok |-> FALSE, v |-> <<"null", "">>]

\* handleQuery; result is what the query_result emit returns
HandleQuery(req, result) ==
    LET match(key) ==
            /\ UnmarshalDoc(records[key]).ok
            /\ \/ req.Query = ""
               \/ LET e == EvalQuery(UnmarshalDoc(records[key]).doc, req.Query)
                  IN  e.ok /\ e.v = <<"bool", "true">>
        keys == SelectSeq(sortedKeys(records), match)
        results == [i \in 1..Len(keys) |->
                       [Key |-> keys[i], Document |-> UnmarshalDoc(records[keys[i]]).doc]]
    IN  /\ call' = [port |-> QueryPort, leader |-> FALSE, msg |-> req]
        /\ emits' = <<Emit(QueryResultPort,
                           [Context |-> req.Context, Results |-> results,
                            Count |-> Len(results), Query |-> req.Query])>>
        /\ ret' = result
        /\ UNCHANGED <<kvSettings, records, storeUsed, metadata>>
        /\ KVFrame

QueryRequests ==
    [Context : {"query-ctx"},
     Query : {"", "$.status == 'DOWN'", "$.status == 'UP'", "$.id == 'a'", "$.status",
              "status = DOWN"}]

InitShared(kind) ==
    /\ node = kind
    /\ call = NoCall
    /\ ret = Nil
    /\ emits = <<>>
    /\ heldAtEmit = {}

InitKVState ==
    /\ kvSettings = KVInitSettings
    /\ records = EmptyMap
    /\ storeUsed = FALSE

\* Handle with the messages of StoreRequests, KVSettingsIn and KVControlIn; a
\* reconcile carries the current metadata, a stale snapshot, or is no TinyNode
KVNext ==
    \/ \E in \in KVSettingsIn : HandleSettingsKV(in)
    \/ \E m \in StaleMetadata \cup {metadata} : HandleReconcileKV(TinyNode(m))
    \/ HandleReconcileKV(NotATinyNode)
    \/ \E in \in KVControlIn : HandleControlKV(in)
    \/ \E req \in StoreRequests :
           \E ack \in (IF kvSettings.EnableStoreAck THEN AckResults ELSE {Nil}) :
               HandleStore(req, ack)
    \/ \E req \in QueryRequests, result \in AckResults : HandleQuery(req, result)

\* the same with the host applying every mutation before it reconciles
KVHostNext ==
    \/ \E in \in KVSettingsIn : HandleSettingsKV(in)
    \/ HandleReconcileKV(TinyNode(metadata))
    \/ \E in \in KVControlIn : HandleControlKV(in)
    \/ \E req \in StoreRequests :
           \E ack \in (IF kvSettings.EnableStoreAck THEN AckResults ELSE {Nil}) :
               HandleStore(req, ack)
    \/ \E req \in QueryRequests, result \in AckResults : HandleQuery(req, result)

-----------------------------------------------------------------------------
(* signal: blocking trigger (the TinyState-backed component)                *)

OutPort == "out"
NoState == Nil
MaxSigWorkers == 2

SigContexts == {Nil, "go"}

\* encoding/json of an `any` holding nil or a string
JSONAny(c) == IF c = Nil THEN "null" ELSE Quote(c)

\* json.Marshal(State{Context}) -- the field is omitempty
MarshalState(st) ==
    IF st.Context = Nil THEN "{}" ELSE "{\"context\":" \o JSONAny(st.Context) \o "}"

\* json.Unmarshal(data, &signalState), over the states Marshal can have written
UnmarshalState(data) ==
    IF \E c \in SigContexts : MarshalState([Context |-> c]) = data
    THEN [ok |-> TRUE,
          state |-> [Context |-> CHOOSE c \in SigContexts : MarshalState([Context |-> c]) = data]]
    ELSE [ok |-> FALSE, state |-> [Context |-> Nil]]

\* Ports(): Control.ResetEnable
ResetEnable == sigIsRunning

SigFrame == /\ node' = node
            /\ heldAtEmit' = {}
            /\ UNCHANGED <<metadata, kvVars, cronVars, tkVars, schVars, asyncVars, injVars, splitVars, gbVars>>

\* sinceSend right after a Send
NoneSinceSend == [reset |-> FALSE, emitting |-> {}, ended |-> FALSE]

SigEmitting == {w \in DOMAIN sigWorkers : sigWorkers[w].pc = "emitting"}
SigFreeIds == (1..MaxSigWorkers) \ DOMAIN sigWorkers

\* go t.runBlockingHandler(context.Background(), signalContext)
SigSpawn(workers, c) ==
    LET w == CHOOSE i \in (1..MaxSigWorkers) \ DOMAIN workers :
                 \A j \in (1..MaxSigWorkers) \ DOMAIN workers : i <= j
    IN  [x \in (DOMAIN workers) \cup {w} |->
            IF x = w THEN [pc |-> "spawned", ctx |-> c, cancelled |-> FALSE]
            ELSE workers[x]]

\* cancelActiveHandler: the workers after the call (activeHandlerCancel becomes nil)
cancelActiveHandler(workers, cancel) ==
    IF cancel # 0
    THEN [workers EXCEPT ![cancel].cancelled = TRUE]
    ELSE workers

\* Handle, ReconcilePort: only the node name is kept
SigReconcile(leader) ==
    /\ call' = [port |-> ReconcilePort, leader |-> leader, msg |-> Nil]
    /\ ret' = Nil
    /\ emits' = <<>>
    /\ UNCHANGED sigVars
    /\ SigFrame

\* Handle, SettingsPort
SigSettings(leader, in) ==
    /\ call' = [port |-> SettingsPort, leader |-> leader, msg |-> Nil]
    /\ ret' = Nil
    /\ emits' = <<>>
    /\ sigSettings' = in
    /\ UNCHANGED <<sigState, sigIsRunning, activeHandlerCancel, sigWorkers, hostState,
                   stateWrites, sinceSend>>
    /\ SigFrame

\* Handle, StatePort: data is the TinyState data the host delivers, nil when deleted
SigStatePort(leader, data) ==
    /\ call' = [port |-> StatePort, leader |-> leader, msg |-> Nil]
    /\ emits' = <<>>
    /\ IF data = NoState
       THEN /\ sigState' = [Context |-> Nil]
            /\ sigIsRunning' = FALSE
            /\ IF IsLeader(leader)
               THEN /\ sigWorkers' = cancelActiveHandler(sigWorkers, activeHandlerCancel)
                    /\ activeHandlerCancel' = 0
               ELSE UNCHANGED <<sigWorkers, activeHandlerCancel>>
            /\ ret' = Nil
       ELSE IF ~UnmarshalState(data).ok
       THEN /\ ret' = "invalid character"
            /\ UNCHANGED <<sigState, sigIsRunning, sigWorkers, activeHandlerCancel>>
       ELSE /\ sigState' = UnmarshalState(data).state
            /\ sigIsRunning' = TRUE
            /\ ret' = Nil
            /\ UNCHANGED activeHandlerCancel
            /\ IF IsLeader(leader) /\ activeHandlerCancel = 0
               THEN /\ SigFreeIds # {}
                    /\ sigWorkers' = SigSpawn(sigWorkers, UnmarshalState(data).state.Context)
               ELSE UNCHANGED sigWorkers
    /\ UNCHANGED <<sigSettings, hostState, stateWrites, sinceSend>>
    /\ SigFrame

\* Handle, ControlPort, with Send launching the blocking emit itself, whatever
\* writeState returned
SigControlEmitsUnwritten(leader, in, accepted) ==
    /\ call' = [port |-> ControlPort, leader |-> leader, msg |-> in]
    /\ IF ~IsLeader(leader)
       THEN /\ ret' = Nil
            /\ emits' = <<>>
            /\ UNCHANGED <<sigWorkers, activeHandlerCancel, hostState, stateWrites>>
       ELSE IF in.Reset
       THEN /\ sigWorkers' = cancelActiveHandler(sigWorkers, activeHandlerCancel)
            /\ activeHandlerCancel' = 0
            /\ UNCHANGED stateWrites
            /\ hostState' = IF accepted THEN NoState ELSE hostState
            /\ emits' = <<Emit(ReconcilePort, [op |-> "state", data |-> NoState])>>
            /\ ret' = IF accepted THEN Nil ELSE "state update failed"
       ELSE IF in.Send
       THEN LET stateData == MarshalState([Context |-> in.Context])
            IN  /\ SigFreeIds # {}
                /\ sigWorkers' = SigSpawn(sigWorkers, in.Context)
                /\ UNCHANGED activeHandlerCancel
                /\ hostState' = IF accepted THEN stateData ELSE hostState
                /\ stateWrites' = IF accepted THEN stateWrites \cup {stateData}
                                  ELSE stateWrites
                /\ emits' = <<Emit(ReconcilePort, [op |-> "state", data |-> stateData])>>
                /\ ret' = IF accepted THEN Nil ELSE "state update failed"
       ELSE /\ ret' = Nil
            /\ emits' = <<>>
            /\ UNCHANGED <<sigWorkers, activeHandlerCancel, hostState, stateWrites>>
    /\ sinceSend' = IF ~IsLeader(leader) THEN sinceSend
                    ELSE IF in.Reset THEN [sinceSend EXCEPT !.reset = TRUE]
                    ELSE IF in.Send THEN NoneSinceSend
                    ELSE sinceSend
    /\ UNCHANGED <<sigSettings, sigState, sigIsRunning>>
    /\ SigFrame

\* Handle, ControlPort; accepted tells whether the host takes the state update
\* (writeState / deleteState return utils.CheckForError of the handler's result)
SigControl(leader, in, accepted) ==
    /\ call' = [port |-> ControlPort, leader |-> leader, msg |-> in]
    /\ IF ~IsLeader(leader)
       THEN /\ ret' = Nil
            /\ emits' = <<>>
            /\ UNCHANGED <<sigWorkers, activeHandlerCancel, hostState, stateWrites>>
       ELSE IF in.Reset
       THEN /\ sigWorkers' = cancelActiveHandler(sigWorkers, activeHandlerCancel)
            /\ activeHandlerCancel' = 0
            /\ UNCHANGED stateWrites
            /\ IF accepted
               THEN /\ hostState' = NoState
                    /\ emits' = <<Emit(ReconcilePort, [op |-> "state", data |-> NoState]), Redraw>>
                    /\ ret' = Nil
               ELSE /\ UNCHANGED hostState
                    /\ emits' = <<Emit(ReconcilePort, [op |-> "state", data |-> NoState])>>
                    /\ ret' = "state update failed"
       ELSE IF in.Send
       THEN LET stateData == MarshalState([Context |-> in.Context])
            IN  /\ UNCHANGED <<sigWorkers, activeHandlerCancel>>
                /\ IF accepted
                   THEN /\ hostState' = stateData
                        /\ stateWrites' = stateWrites \cup {stateData}
                        /\ emits' = <<Emit(ReconcilePort, [op |-> "state", data |-> stateData]),
                                      Redraw>>
                        /\ ret' = Nil
                   ELSE /\ UNCHANGED <<hostState, stateWrites>>
                        /\ emits' = <<Emit(ReconcilePort, [op |-> "state", data |-> stateData])>>
                        /\ ret' = "state update failed"
       ELSE /\ ret' = Nil
            /\ emits' = <<>>
            /\ UNCHANGED <<sigWorkers, activeHandlerCancel, hostState, stateWrites>>
    /\ sinceSend' = IF ~IsLeader(leader) THEN sinceSend
                    ELSE IF in.Reset THEN [sinceSend EXCEPT !.reset = TRUE]
                    ELSE IF in.Send THEN NoneSinceSend
                    ELSE sinceSend
    /\ UNCHANGED <<sigSettings, sigState, sigIsRunning>>
    /\ SigFrame

\* runBlockingHandler up to the call of the handler: return when a handler is
\* active, else take activeHandlerCancel and call handler(ctx, OutPort, signalContext)
runBlockingHandlerStart(w) ==
    /\ w \in DOMAIN sigWorkers
    /\ sigWorkers[w].pc = "spawned"
    /\ IF activeHandlerCancel # 0
       THEN /\ sigWorkers' = [x \in DOMAIN sigWorkers \ {w} |-> sigWorkers[x]]
            /\ emits' = <<>>
            /\ UNCHANGED activeHandlerCancel
            /\ UNCHANGED sinceSend
       ELSE /\ activeHandlerCancel' = w
            /\ sigWorkers' = [sigWorkers EXCEPT ![w].pc = "emitting"]
            /\ emits' = <<Emit(OutPort, sigWorkers[w].ctx)>>
            /\ sinceSend' = [sinceSend EXCEPT !.emitting = @ \cup {w}]
    /\ call' = NoCall
    /\ ret' = Nil
    /\ UNCHANGED <<sigSettings, sigState, sigIsRunning, hostState, stateWrites>>
    /\ SigFrame

\* runBlockingHandler returning from the emit without looking at ctx.Err(): the
\* state is never deleted
runBlockingHandlerReturnKeepsState(w, accepted) ==
    /\ w \in DOMAIN sigWorkers
    /\ sigWorkers[w].pc = "emitting"
    /\ sigWorkers' = [sigWorkers EXCEPT
                         ![w] = [pc |-> "returned", ctx |-> Nil, cancelled |-> @.cancelled]]
    /\ emits' = <<>>
    /\ UNCHANGED hostState
    /\ call' = NoCall
    /\ ret' = Nil
    /\ sinceSend' = IF w \in sinceSend.emitting
                    THEN [sinceSend EXCEPT !.emitting = @ \ {w}, !.ended = TRUE]
                    ELSE sinceSend
    /\ UNCHANGED <<sigSettings, sigState, sigIsRunning, activeHandlerCancel, stateWrites>>
    /\ SigFrame

\* the blocking emit returns (downstream done, or ctx cancelled); when ctx.Err() is
\* nil the state is deleted and a redraw requested
runBlockingHandlerReturn(w, accepted) ==
    /\ w \in DOMAIN sigWorkers
    /\ sigWorkers[w].pc = "emitting"
    \* signalContext is not read after the handler call: the record drops it
    /\ sigWorkers' = [sigWorkers EXCEPT
                         ![w] = [pc |-> "returned", ctx |-> Nil, cancelled |-> @.cancelled]]
    /\ IF sigWorkers[w].cancelled
       THEN /\ emits' = <<>>
            /\ UNCHANGED hostState
       ELSE /\ emits' = <<Emit(ReconcilePort, [op |-> "state", data |-> NoState]), Redraw>>
            /\ hostState' = IF accepted THEN NoState ELSE hostState
    /\ call' = NoCall
    /\ ret' = Nil
    /\ sinceSend' = IF w \in sinceSend.emitting
                    THEN [sinceSend EXCEPT !.emitting = @ \ {w}, !.ended = TRUE]
                    ELSE sinceSend
    /\ UNCHANGED <<sigSettings, sigState, sigIsRunning, activeHandlerCancel, stateWrites>>
    /\ SigFrame

\* the deferred function of runBlockingHandler
runBlockingHandlerExit(w) ==
    /\ w \in DOMAIN sigWorkers
    /\ sigWorkers[w].pc = "returned"
    /\ activeHandlerCancel' = 0
    /\ sigWorkers' = [x \in DOMAIN sigWorkers \ {w} |-> sigWorkers[x]]
    /\ emits' = <<>>
    /\ call' = NoCall
    /\ ret' = Nil
    /\ UNCHANGED <<sigSettings, sigState, sigIsRunning, hostState, stateWrites, sinceSend>>
    /\ SigFrame

\* Instance(): the pod restarts; the host keeps the TinyState
SigInstance ==
    /\ sigSettings = [Context |-> Nil]
    /\ sigState = [Context |-> Nil]
    /\ sigIsRunning = FALSE
    /\ activeHandlerCancel = 0
    /\ sigWorkers = EmptyMap
    /\ sinceSend = NoneSinceSend

SigNewPod ==
    /\ DOMAIN sigWorkers # {} \/ sigIsRunning
    /\ sigSettings' = [Context |-> Nil]
    /\ sigState' = [Context |-> Nil]
    /\ sigIsRunning' = FALSE
    /\ activeHandlerCancel' = 0
    /\ sigWorkers' = EmptyMap
    /\ sinceSend' = NoneSinceSend
    /\ call' = NoCall
    /\ ret' = Nil
    /\ emits' = <<>>
    /\ UNCHANGED <<hostState, stateWrites>>
    /\ SigFrame

SigControlIn ==
    { [Context |-> c, Send |-> TRUE, Reset |-> FALSE] : c \in SigContexts }
    \cup { [Context |-> "go", Send |-> TRUE, Reset |-> TRUE],
           [Context |-> "go", Send |-> FALSE, Reset |-> FALSE] }

\* Handle and the goroutines; the host delivers on the state port the state as
\* some accepted write left it, or its deletion
SigNext ==
    \/ SigReconcile(FALSE)
    \/ SigSettings(FALSE, [Context |-> Nil])
    \/ \E leader \in BOOLEAN, data \in stateWrites \cup {NoState} :
           SigStatePort(leader, data)
    \/ \E leader \in BOOLEAN, in \in SigControlIn, accepted \in BOOLEAN :
           SigControl(leader, in, accepted)
    \/ \E w \in 1..MaxSigWorkers : runBlockingHandlerStart(w)
    \/ \E w \in 1..MaxSigWorkers, accepted \in BOOLEAN : runBlockingHandlerReturn(w, accepted)
    \/ \E w \in 1..MaxSigWorkers : runBlockingHandlerExit(w)
    \/ SigNewPod

\* the same instance under a host that applies every state write and delivers on
\* the state port the state as it now is
SigHostNext ==
    \/ \E leader \in BOOLEAN : SigStatePort(leader, hostState)
    \/ \E leader \in BOOLEAN, in \in SigControlIn : SigControl(leader, in, TRUE)
    \/ \E w \in 1..MaxSigWorkers : runBlockingHandlerStart(w)
    \/ \E w \in 1..MaxSigWorkers : runBlockingHandlerReturn(w, TRUE)
    \/ \E w \in 1..MaxSigWorkers : runBlockingHandlerExit(w)
    \/ SigNewPod

-----------------------------------------------------------------------------
(***************************************************************************)
(* cron: schedule-driven emitter (package cron of router.go)                *)
(***************************************************************************)

metadataKeyRunning  == "cron-running"
metadataKeySchedule == "cron-schedule"
metadataKeyContext  == "cron-context"
metadataKeyError    == "cron-error"

MaxCronWorkers == 2
MaxTime == 2

DefaultSchedule == "*/1 * * * *"
EveryTwo        == "*/2 * * * *"
BadSchedule     == "bogus"

\* parser.Parse(schedule): the period in minutes of the schedules used here, 0 = error
ParsePeriod(schedule) ==
    IF schedule = DefaultSchedule THEN 1
    ELSE IF schedule = EveryTwo THEN 2
    ELSE 0

\* the message of the error Parse returns
ParseError(schedule) == "expected exactly 5 fields, found 1: [" \o schedule \o "]"

\* a schedule whose next activation is the zero time
SchedNever(period, t) == 0

\* sched.Next(t): the first activation strictly after t
SchedNext(period, t) == ((t \div period) + 1) * period

\* json.Unmarshal([]byte(ctxStr), &savedCtx) with savedCtx of type any
CronContexts == {Nil, "job", "old"}
UnmarshalContext(ctxStr) ==
    IF \E c \in CronContexts : JSONAny(c) = ctxStr
    THEN [ok |-> TRUE, ctx |-> CHOOSE c \in CronContexts : JSONAny(c) = ctxStr]
    ELSE [ok |-> FALSE, ctx |-> Nil]

\* a mutation that writes the running marker only
persistRunningOnly(m, settings) == MapSet(m, metadataKeyRunning, "true")

\* the mutation persistRunningState hands to the handler, applied to metadata m
persistRunningState(m, settings) ==
    MapSet(MapSet(MapSet(m, metadataKeyRunning, "true"),
                  metadataKeySchedule, settings.Schedule),
           metadataKeyContext, JSONAny(settings.Context))

\* the mutation of clearRunningMetadata
clearRunningMetadata(m) ==
    MapDelete(MapDelete(MapDelete(MapDelete(m, metadataKeyRunning), metadataKeySchedule),
                        metadataKeyContext), metadataKeyError)

\* a mutation that writes nothing
dropError(m, errMsg) == m

\* the mutation of persistError
persistError(m, errMsg) == MapSet(m, metadataKeyError, errMsg)

\* the mutation of clearError
clearError(m) == MapDelete(m, metadataKeyError)

\* a handler call that carries a metadata mutation
Mutate(name) == Emit(ReconcilePort, [op |-> name])

\* control(): the descriptor of the control port
control ==
    IF cronCancel # 0
    THEN [Status |-> "Running", Context |-> cronSettings.Context,
          Schedule |-> cronSettings.Schedule,
          NextRun |-> IF nextTick # 0 THEN ToString(nextTick) ELSE "",
          Stop |-> TRUE, Start |-> FALSE]
    ELSE [Status |-> IF lastError # "" THEN lastError ELSE "Not running",
          Context |-> cronSettings.Context, Schedule |-> cronSettings.Schedule,
          NextRun |-> "", Stop |-> FALSE, Start |-> TRUE]

CronFrame == /\ node' = node
             /\ UNCHANGED <<kvVars, sigVars, tkVars, schVars, asyncVars, injVars, splitVars, gbVars>>

CronFreeIds == (1..MaxCronWorkers) \ DOMAIN cronWorkers

\* go c.run(context.Background(), handler)
CronSpawn(workers) ==
    LET w == CHOOSE i \in (1..MaxCronWorkers) \ DOMAIN workers :
                 \A j \in (1..MaxCronWorkers) \ DOMAIN workers : i <= j
    IN  [x \in (DOMAIN workers) \cup {w} |->
            IF x = w THEN [pc |-> "spawned", cancelled |-> FALSE, period |-> 0]
            ELSE workers[x]]

\* restoreSettingsFromMetadata without the settingsFromPort check
restoreSettingsUnguarded(settings, guard, m) ==
    LET s1 == IF MapHas(m, metadataKeySchedule) /\ m[metadataKeySchedule] # ""
              THEN [settings EXCEPT !.Schedule = m[metadataKeySchedule]]
              ELSE settings
    IN  IF MapHas(m, metadataKeyContext) /\ m[metadataKeyContext] # ""
        THEN [s1 EXCEPT !.Context = UnmarshalContext(m[metadataKeyContext]).ctx]
        ELSE s1

\* restoreSettingsFromMetadata: the settings after the call
restoreSettingsFromMetadata(settings, guard, m) ==
    IF guard THEN settings
    ELSE LET s1 == IF MapHas(m, metadataKeySchedule) /\ m[metadataKeySchedule] # ""
                   THEN [settings EXCEPT !.Schedule = m[metadataKeySchedule]]
                   ELSE settings
         IN  IF /\ MapHas(m, metadataKeyContext)
                /\ m[metadataKeyContext] # ""
                /\ UnmarshalContext(m[metadataKeyContext]).ok
             THEN [s1 EXCEPT !.Context = UnmarshalContext(m[metadataKeyContext]).ctx]
             ELSE s1

\* restoreSettingsFromMetadata: lastError after the call
restoreLastError(err, guard, m) ==
    IF ~guard /\ MapHas(m, metadataKeyError) THEN m[metadataKeyError] ELSE err

\* handleOrphanedRunningState: whether it reaches `go c.run`
handleOrphanedRunningState(leader, m) ==
    /\ MapHas(m, metadataKeyRunning)
    /\ cronCancel = 0
    /\ IsLeader(leader)

\* Handle, SettingsPort
CronSettings(in) ==
    /\ call' = [port |-> SettingsPort, leader |-> FALSE, msg |-> Nil]
    /\ heldAtEmit' = {}
    /\ ret' = Nil
    /\ cronSettings' = in
    /\ settingsFromPort' = TRUE
    /\ IF cronCancel # 0
       THEN /\ metadata' = persistRunningState(metadata, in)
            /\ emits' = <<Mutate("persistRunningState")>>
       ELSE /\ UNCHANGED metadata
            /\ emits' = <<>>
    /\ UNCHANGED <<cronCancel, nextTick, lastError, runMu, cronWorkers, cronStopped, now>>
    /\ CronFrame

\* stop: cancel the run goroutine that registered its cancel func, clear the metadata
stop ==
    /\ heldAtEmit' = {"mu"}
    /\ cronWorkers' = IF cronCancel # 0
                      THEN [cronWorkers EXCEPT ![cronCancel].cancelled = TRUE]
                      ELSE cronWorkers
    /\ metadata' = clearRunningMetadata(metadata)
    /\ emits' = <<Mutate("clearRunningMetadata")>>
    /\ UNCHANGED <<cronSettings, cronCancel, nextTick, settingsFromPort, lastError>>

\* a nil message
NilMsg == [kind |-> "nil"]

\* Handle, ControlPort; msg is nil or a Control
CronControl(leader, msg) ==
    /\ call' = [port |-> ControlPort, leader |-> leader, msg |-> msg]
    /\ ret' = Nil
    /\ IF msg = NilMsg \/ ~IsLeader(leader)
       THEN /\ emits' = <<>>
            /\ heldAtEmit' = {}
            /\ UNCHANGED <<metadata, cronSettings, cronCancel, nextTick, settingsFromPort,
                           lastError, cronWorkers, cronStopped>>
       ELSE IF msg.Stop
       THEN stop /\ cronStopped' = IF cronCancel # 0 THEN "cancelled" ELSE "idle"
       ELSE IF ParsePeriod(msg.Schedule) = 0
       THEN /\ lastError' = "invalid schedule " \o Quote(msg.Schedule) \o ": "
                                \o ParseError(msg.Schedule)
            /\ metadata' = persistError(metadata, lastError')
            /\ emits' = <<Mutate("persistError")>>
            /\ heldAtEmit' = {}
            /\ UNCHANGED <<cronSettings, cronCancel, nextTick, settingsFromPort, cronWorkers,
                           cronStopped>>
       ELSE /\ cronSettings' = [Context |-> msg.Context, Schedule |-> msg.Schedule]
            /\ settingsFromPort' = TRUE
            /\ lastError' = ""
            /\ metadata' = persistRunningState(clearError(metadata), cronSettings')
            /\ emits' = <<Mutate("clearError"), Mutate("persistRunningState")>>
            /\ heldAtEmit' = {}
            /\ CronFreeIds # {}
            /\ cronWorkers' = CronSpawn(cronWorkers)
            /\ cronStopped' = "none"
            /\ UNCHANGED <<cronCancel, nextTick>>
    /\ UNCHANGED <<runMu, now>>
    /\ CronFrame

\* Handle, ReconcilePort (handleReconcile)
CronReconcile(leader, msg) ==
    /\ call' = [port |-> ReconcilePort, leader |-> leader, msg |-> msg]
    /\ heldAtEmit' = {}
    /\ ret' = Nil
    /\ emits' = <<>>
    /\ IF msg.kind # "TinyNode"
       THEN UNCHANGED <<cronSettings, lastError, cronWorkers, cronStopped>>
       ELSE /\ cronSettings' =
                   restoreSettingsFromMetadata(cronSettings, settingsFromPort, msg.Metadata)
            /\ lastError' = restoreLastError(lastError, settingsFromPort, msg.Metadata)
            /\ IF handleOrphanedRunningState(leader, msg.Metadata)
               THEN /\ CronFreeIds # {}
                    /\ cronWorkers' = CronSpawn(cronWorkers)
                    /\ cronStopped' = "none"
               ELSE UNCHANGED <<cronWorkers, cronStopped>>
    /\ UNCHANGED <<metadata, cronCancel, nextTick, settingsFromPort, runMu, now>>
    /\ CronFrame

CronWorkerFrame ==
    /\ call' = NoCall
    /\ heldAtEmit' = {}
    /\ ret' = Nil
    /\ UNCHANGED <<cronSettings, settingsFromPort, lastError, cronStopped, now>>
    /\ CronFrame

\* run: runMu.Lock, register the cancel func, snapshot and parse the schedule
runBegin(w) ==
    /\ w \in DOMAIN cronWorkers
    /\ cronWorkers[w].pc = "spawned"
    /\ runMu = 0
    /\ runMu' = w
    /\ cronCancel' = w
    /\ cronWorkers' = [cronWorkers EXCEPT ![w].pc = "started",
                                          ![w].period = ParsePeriod(cronSettings.Schedule)]
    /\ emits' = <<>>
    /\ UNCHANGED <<metadata, nextTick>>
    /\ CronWorkerFrame

\* the deferred calls of run: cancel and nextTick cleared, redraw, runMu.Unlock
runDeferred(w) ==
    /\ cronCancel' = 0
    /\ nextTick' = 0
    /\ emits' = <<Redraw>>
    /\ runMu' = 0
    /\ cronWorkers' = [x \in DOMAIN cronWorkers \ {w} |-> cronWorkers[x]]
    /\ UNCHANGED metadata

\* run after Parse: on error clear cancel and the running metadata and return,
\* else compute nextTick and ask for a redraw
runParsed(w) ==
    /\ w \in DOMAIN cronWorkers
    /\ cronWorkers[w].pc = "started"
    /\ IF cronWorkers[w].period = 0
       THEN /\ cronCancel' = 0
            /\ metadata' = clearRunningMetadata(metadata)
            /\ emits' = <<Mutate("clearRunningMetadata")>>
            /\ runMu' = 0
            /\ cronWorkers' = [x \in DOMAIN cronWorkers \ {w} |-> cronWorkers[x]]
            /\ UNCHANGED nextTick
       ELSE /\ nextTick' = SchedNext(cronWorkers[w].period, now)
            /\ emits' = <<Redraw>>
            /\ cronWorkers' = [cronWorkers EXCEPT ![w].pc = "waiting"]
            /\ UNCHANGED <<metadata, cronCancel, runMu>>
    /\ CronWorkerFrame

\* waitUntil returns nil (the time has come, whether or not ctx is done) and the
\* loop calls handler(tickCtx, OutPort, data)
runFire(w) ==
    /\ w \in DOMAIN cronWorkers
    /\ cronWorkers[w].pc = "waiting"
    /\ now >= nextTick
    /\ cronWorkers' = [cronWorkers EXCEPT ![w].pc = "emitting"]
    /\ emits' = <<Emit(OutPort, cronSettings.Context)>>
    /\ UNCHANGED <<metadata, cronCancel, nextTick, runMu>>
    /\ CronWorkerFrame

\* waitUntil returns ctx.Err(): run returns through its deferred calls
runCancelled(w) ==
    /\ w \in DOMAIN cronWorkers
    /\ cronWorkers[w].pc = "waiting"
    /\ cronWorkers[w].cancelled
    /\ runDeferred(w)
    /\ CronWorkerFrame

\* the emit on Out returns: return when ctx is done, else schedule the next tick
runEmitReturn(w) ==
    /\ w \in DOMAIN cronWorkers
    /\ cronWorkers[w].pc = "emitting"
    /\ IF cronWorkers[w].cancelled
       THEN runDeferred(w)
       ELSE /\ nextTick' = SchedNext(cronWorkers[w].period, now)
            /\ emits' = <<Redraw>>
            /\ cronWorkers' = [cronWorkers EXCEPT ![w].pc = "waiting"]
            /\ UNCHANGED <<metadata, cronCancel, runMu>>
    /\ CronWorkerFrame

\* a minute of wall-clock time passes
CronTick ==
    /\ now < MaxTime
    /\ now' = now + 1
    /\ call' = NoCall
    /\ heldAtEmit' = {}
    /\ ret' = Nil
    /\ emits' = <<>>
    /\ UNCHANGED <<metadata, cronSettings, cronCancel, nextTick, settingsFromPort,
                   lastError, runMu, cronWorkers, cronStopped>>
    /\ CronFrame

\* Instance()
CronInstance ==
    /\ cronSettings = [Context |-> Nil, Schedule |-> DefaultSchedule]
    /\ cronCancel = 0
    /\ nextTick = 0
    /\ settingsFromPort = FALSE
    /\ lastError = ""
    /\ runMu = 0
    /\ cronWorkers = EmptyMap
    /\ cronStopped = "none"

\* the pod restarts: a fresh Instance(), its goroutines gone, the metadata kept
CronNewPod ==
    /\ settingsFromPort \/ DOMAIN cronWorkers # {}
    /\ cronSettings' = [Context |-> Nil, Schedule |-> DefaultSchedule]
    /\ cronCancel' = 0
    /\ nextTick' = 0
    /\ settingsFromPort' = FALSE
    /\ lastError' = ""
    /\ runMu' = 0
    /\ cronWorkers' = EmptyMap
    /\ cronStopped' = "none"
    /\ call' = NoCall
    /\ heldAtEmit' = {}
    /\ ret' = Nil
    /\ emits' = <<>>
    /\ UNCHANGED <<metadata, now>>
    /\ CronFrame

CronSettingsIn == { [Context |-> "job", Schedule |-> EveryTwo],
                    [Context |-> Nil, Schedule |-> BadSchedule] }

CronControlIn ==
    { NilMsg,
      [kind |-> "Control", Context |-> Nil, Schedule |-> "", Stop |-> TRUE, Start |-> FALSE],
      [kind |-> "Control", Context |-> "job", Schedule |-> DefaultSchedule,
       Stop |-> FALSE, Start |-> TRUE],
      [kind |-> "Control", Context |-> "job", Schedule |-> BadSchedule,
       Stop |-> FALSE, Start |-> TRUE] }

\* snapshots of the metadata an earlier pod or an earlier moment left behind
CronStaleMetadata ==
    { (metadataKeyRunning :> "true") @@ (metadataKeySchedule :> EveryTwo)
          @@ (metadataKeyContext :> "\"old\""),
      (metadataKeySchedule :> "") @@ (metadataKeyContext :> "not json")
          @@ (metadataKeyError :> "boom") }

\* Handle, the run goroutines, the clock and the pod restart; a reconcile carries
\* the current metadata, a stale snapshot, or is no TinyNode
CronNext ==
    \/ \E in \in CronSettingsIn : CronSettings(in)
    \/ \E leader \in BOOLEAN, msg \in CronControlIn : CronControl(leader, msg)
    \/ \E leader \in BOOLEAN, m \in CronStaleMetadata \cup {metadata} :
           CronReconcile(leader, TinyNode(m))
    \/ \E leader \in BOOLEAN : CronReconcile(leader, NotATinyNode)
    \/ \E w \in 1..MaxCronWorkers : runBegin(w)
    \/ \E w \in 1..MaxCronWorkers : runParsed(w)
    \/ \E w \in 1..MaxCronWorkers : runFire(w)
    \/ \E w \in 1..MaxCronWorkers : runCancelled(w)
    \/ \E w \in 1..MaxCronWorkers : runEmitReturn(w)
    \/ CronTick
    \/ CronNewPod

-----------------------------------------------------------------------------
(***************************************************************************)
(* ticker: periodic emitter (package ticker of cron.go)                     *)
(***************************************************************************)

tickerKeyRunning == "ticker-running"
tickerKeyConfig  == "ticker-config"

MaxTkWorkers == 2

TkContexts == {Nil, "tick", "old"}

\* json.Marshal(t.settings): context is omitempty, delay an int
MarshalSettings(st) ==
    "{" \o (IF st.Context = Nil THEN "" ELSE "\"context\":" \o JSONAny(st.Context) \o ",")
        \o "\"delay\":" \o ToString(st.Delay) \o "}"

\* json.Unmarshal([]byte(configStr), &cfg), over the settings Marshal can have written
UnmarshalSettings(configStr) ==
    LET cands == [Context : TkContexts, Delay : {1000, 500}]
    IN  IF \E c \in cands : MarshalSettings(c) = configStr
        THEN [ok |-> TRUE, cfg |-> CHOOSE c \in cands : MarshalSettings(c) = configStr]
        ELSE [ok |-> FALSE, cfg |-> [Context |-> Nil, Delay |-> 0]]

\* the mutation persistMetadata hands to the handler
persistMetadata(m, settings) ==
    MapSet(MapSet(m, tickerKeyRunning, "true"), tickerKeyConfig, MarshalSettings(settings))

\* the mutation of clearMetadata
clearMetadata(m) == MapDelete(MapDelete(m, tickerKeyRunning), tickerKeyConfig)

isRunning == cancelFunc # 0

\* getControl() when cancelFunc is f
tickerControl(f, settings) ==
    IF f # 0
    THEN [Status |-> "Running", Context |-> settings.Context, Stop |-> TRUE, Start |-> FALSE]
    ELSE [Status |-> "Not running", Context |-> settings.Context, Stop |-> FALSE,
          Start |-> TRUE]

TkFrame == /\ node' = node
           /\ heldAtEmit' = {}
           /\ UNCHANGED <<kvVars, sigVars, cronVars, schVars, asyncVars, injVars, splitVars, gbVars>>

TkFreeIds == (1..MaxTkWorkers) \ DOMAIN tkWorkers

\* go t.emit(ctx, handler); parent tells whether ctx is the request's or Background
TkSpawn(workers, parent) ==
    LET w == CHOOSE i \in (1..MaxTkWorkers) \ DOMAIN workers :
                 \A j \in (1..MaxTkWorkers) \ DOMAIN workers : i <= j
    IN  [x \in (DOMAIN workers) \cup {w} |->
            IF x = w
            THEN [pc |-> "spawned", cancelled |-> FALSE, parent |-> parent, timer |-> FALSE]
            ELSE workers[x]]

\* Handle, SettingsPort
TkSettings(in) ==
    /\ call' = [port |-> SettingsPort, leader |-> FALSE, msg |-> Nil]
    /\ ret' = Nil
    /\ emits' = <<>>
    /\ tkSettings' = in
    /\ UNCHANGED <<metadata, cancelFunc, runLock, tkWorkers, tkStopped>>
    /\ TkFrame

\* handleReconcile
TkReconcile(leader, msg) ==
    /\ call' = [port |-> ReconcilePort, leader |-> leader, msg |-> msg]
    /\ ret' = Nil
    /\ emits' = <<>>
    /\ IF \/ msg.kind # "TinyNode"
          \/ ~MapHas(msg.Metadata, tickerKeyRunning)
          \/ isRunning
          \/ ~IsLeader(leader)
       THEN UNCHANGED <<tkSettings, tkWorkers, tkStopped>>
       ELSE /\ tkSettings' =
                   IF /\ MapHas(msg.Metadata, tickerKeyConfig)
                      /\ UnmarshalSettings(msg.Metadata[tickerKeyConfig]).ok
                   THEN UnmarshalSettings(msg.Metadata[tickerKeyConfig]).cfg
                   ELSE tkSettings
            /\ TkFreeIds # {}
            /\ tkWorkers' = TkSpawn(tkWorkers, "request")
            /\ tkStopped' = "none"
    /\ UNCHANGED <<metadata, cancelFunc, runLock>>
    /\ TkFrame

\* stop(): the workers after the call
tickerStop(workers, f) ==
    IF f # 0 THEN [workers EXCEPT ![f].cancelled = TRUE] ELSE workers

\* handleControl; msg is nil or a Control
TkControl(leader, msg) ==
    /\ call' = [port |-> ControlPort, leader |-> leader, msg |-> msg]
    /\ ret' = Nil
    /\ IF msg = NilMsg \/ ~IsLeader(leader)
       THEN /\ emits' = <<>>
            /\ UNCHANGED <<metadata, tkSettings, tkWorkers, tkStopped>>
       ELSE IF msg.Stop
       THEN /\ metadata' = clearMetadata(metadata)
            /\ emits' = <<Mutate("clearMetadata")>>
            /\ tkWorkers' = tickerStop(tkWorkers, cancelFunc)
            /\ tkStopped' = IF cancelFunc # 0 THEN "cancelled" ELSE "idle"
            /\ UNCHANGED tkSettings
       ELSE /\ tkSettings' = [tkSettings EXCEPT !.Context = msg.Context]
            /\ metadata' = persistMetadata(metadata, tkSettings')
            /\ emits' = <<Mutate("persistMetadata")>>
            /\ tkStopped' = "none"
            /\ IF isRunning
               THEN UNCHANGED tkWorkers
               ELSE /\ TkFreeIds # {}
                    /\ tkWorkers' = TkSpawn(tkWorkers, "background")
    /\ UNCHANGED <<cancelFunc, runLock>>
    /\ TkFrame

TkWorkerFrame ==
    /\ call' = NoCall
    /\ ret' = Nil
    /\ UNCHANGED <<metadata, tkSettings, tkStopped>>
    /\ TkFrame

\* emit with a timer of the full delay in place of time.NewTimer(0)
emitBeginWaitsDelay(w) ==
    /\ w \in DOMAIN tkWorkers
    /\ tkWorkers[w].pc = "spawned"
    /\ runLock = 0
    /\ runLock' = w
    /\ cancelFunc' = w
    /\ emits' = <<Emit(ControlPort, tickerControl(w, tkSettings))>>
    /\ tkWorkers' = [tkWorkers EXCEPT ![w].pc = "running", ![w].timer = FALSE]
    /\ TkWorkerFrame

\* emit: runLock.Lock, setCancelFunc(runCancel), control update, timer of 0
emitBegin(w) ==
    /\ w \in DOMAIN tkWorkers
    /\ tkWorkers[w].pc = "spawned"
    /\ runLock = 0
    /\ runLock' = w
    /\ cancelFunc' = w
    /\ emits' = <<Emit(ControlPort, tickerControl(w, tkSettings))>>
    /\ tkWorkers' = [tkWorkers EXCEPT ![w].pc = "running", ![w].timer = TRUE]
    /\ TkWorkerFrame

\* the bridge goroutine: the parent context is done, runCancel is called
emitParentDone(w) ==
    /\ w \in DOMAIN tkWorkers
    /\ tkWorkers[w].pc # "spawned"
    /\ tkWorkers[w].parent = "request"
    /\ ~tkWorkers[w].cancelled
    /\ tkWorkers' = [tkWorkers EXCEPT ![w].cancelled = TRUE]
    /\ emits' = <<>>
    /\ UNCHANGED <<cancelFunc, runLock>>
    /\ TkWorkerFrame

\* the delay set by timer.Reset elapses
emitTimer(w) ==
    /\ w \in DOMAIN tkWorkers
    /\ tkWorkers[w].pc = "running"
    /\ ~tkWorkers[w].timer
    /\ tkWorkers' = [tkWorkers EXCEPT ![w].timer = TRUE]
    /\ emits' = <<>>
    /\ UNCHANGED <<cancelFunc, runLock>>
    /\ TkWorkerFrame

\* select takes <-timer.C: handler(runCtx, OutPort, t.settings.Context)
emitFire(w) ==
    /\ w \in DOMAIN tkWorkers
    /\ tkWorkers[w].pc = "running"
    /\ tkWorkers[w].timer
    /\ tkWorkers' = [tkWorkers EXCEPT ![w].pc = "emitting"]
    /\ emits' = <<Emit(OutPort, tkSettings.Context)>>
    /\ UNCHANGED <<cancelFunc, runLock>>
    /\ TkWorkerFrame

\* the handler call on Out returns; timer.Reset(delay)
emitReturn(w) ==
    /\ w \in DOMAIN tkWorkers
    /\ tkWorkers[w].pc = "emitting"
    /\ tkWorkers' = [tkWorkers EXCEPT ![w].pc = "running", ![w].timer = FALSE]
    /\ emits' = <<>>
    /\ UNCHANGED <<cancelFunc, runLock>>
    /\ TkWorkerFrame

\* select takes <-runCtx.Done(): the deferred calls run
emitDone(w) ==
    /\ w \in DOMAIN tkWorkers
    /\ tkWorkers[w].pc = "running"
    /\ tkWorkers[w].cancelled
    /\ cancelFunc' = 0
    /\ emits' = <<Emit(ControlPort, tickerControl(0, tkSettings))>>
    /\ runLock' = 0
    /\ tkWorkers' = [x \in DOMAIN tkWorkers \ {w} |-> tkWorkers[x]]
    /\ TkWorkerFrame

\* Instance()
TkInstance ==
    /\ tkSettings = [Context |-> Nil, Delay |-> 1000]
    /\ cancelFunc = 0
    /\ runLock = 0
    /\ tkWorkers = EmptyMap
    /\ tkStopped = "none"

\* the pod restarts: a fresh Instance(), its goroutines gone, the metadata kept
TkNewPod ==
    /\ DOMAIN tkWorkers # {} \/ tkSettings # [Context |-> Nil, Delay |-> 1000]
    /\ tkSettings' = [Context |-> Nil, Delay |-> 1000]
    /\ cancelFunc' = 0
    /\ runLock' = 0
    /\ tkWorkers' = EmptyMap
    /\ tkStopped' = "none"
    /\ call' = NoCall
    /\ ret' = Nil
    /\ emits' = <<>>
    /\ UNCHANGED metadata
    /\ TkFrame

TkSettingsIn == { [Context |-> "tick", Delay |-> 500] }

TkControlIn ==
    { NilMsg,
      [kind |-> "Control", Context |-> Nil, Stop |-> TRUE, Start |-> FALSE],
      [kind |-> "Control", Context |-> "tick", Stop |-> FALSE, Start |-> TRUE] }

TkStaleMetadata ==
    { (tickerKeyRunning :> "true")
          @@ (tickerKeyConfig :> MarshalSettings([Context |-> "old", Delay |-> 500])),
      (tickerKeyRunning :> "true") @@ (tickerKeyConfig :> "not json") }

\* Handle, the emit goroutines and the pod restart
TkNext ==
    \/ \E in \in TkSettingsIn : TkSettings(in)
    \/ \E leader \in BOOLEAN, msg \in TkControlIn : TkControl(leader, msg)
    \/ \E leader \in BOOLEAN, m \in TkStaleMetadata \cup {metadata} :
           TkReconcile(leader, TinyNode(m))
    \/ \E leader \in BOOLEAN : TkReconcile(leader, NotATinyNode)
    \/ \E w \in 1..MaxTkWorkers : emitBegin(w)
    \/ \E w \in 1..MaxTkWorkers : emitParentDone(w)
    \/ \E w \in 1..MaxTkWorkers : emitTimer(w)
    \/ \E w \in 1..MaxTkWorkers : emitFire(w)
    \/ \E w \in 1..MaxTkWorkers : emitReturn(w)
    \/ \E w \in 1..MaxTkWorkers : emitDone(w)
    \/ TkNewPod

-----------------------------------------------------------------------------
(***************************************************************************)
(* scheduler: one-shot timers, one per task id                              *)
(***************************************************************************)

StartPort == "start"
StopPort  == "stop"
InPort    == "in"
AckPort   == "ack"

MaxSchRuns  == 2
MaxSchWaits == 2
MaxSchTime  == 1

\* the zero time.Time of a task message without dateTime: before every clock value
ZeroTime == -100

SchFrame ==
    /\ node' = node
    /\ heldAtEmit' = {}
    /\ UNCHANGED <<metadata, kvVars, sigVars, tkVars, asyncVars, injVars, splitVars, gbVars, now>>
    /\ UNCHANGED <<cronSettings, cronCancel, nextTick, settingsFromPort, lastError, runMu,
                   cronWorkers, cronStopped>>

\* Handle, SettingsPort
SchSettings(in) ==
    /\ call' = [port |-> SettingsPort, leader |-> FALSE, msg |-> Nil]
    /\ ret' = Nil
    /\ emits' = <<>>
    /\ schSettings' = in
    /\ UNCHANGED <<schCancelFunc, schRunCtx, schRunLock, schRuns, tasks, schWaits, schAcks>>
    /\ SchFrame

\* Handle on the Start, Stop and Control ports: run (the call blocks, its invocation is
\* entered in schRuns), stop(), or nothing for a nil control message.  The request
\* context of a run is taken to outlive the run.
SchControl(port, msg) ==
    LET op == IF port = StartPort \/ (port = ControlPort /\ msg.kind = "StartControl")
              THEN "run"
              ELSE IF port = StopPort \/ (port = ControlPort /\ msg.kind = "StopControl")
              THEN "stop"
              ELSE "none"
    IN  /\ call' = [port |-> port, leader |-> FALSE, msg |-> msg]
        /\ ret' = Nil
        /\ emits' = <<>>
        /\ IF op = "run"
           THEN /\ Len(schRuns) < MaxSchRuns
                /\ schRuns' = Append(schRuns, [pc |-> "lock", cancelled |-> FALSE])
           ELSE IF op = "stop" /\ schCancelFunc # 0
           THEN schRuns' = [schRuns EXCEPT ![schCancelFunc].cancelled = TRUE]
           ELSE UNCHANGED schRuns
        /\ UNCHANGED <<schSettings, schCancelFunc, schRunCtx, schRunLock, tasks, schWaits,
                       schAcks>>
        /\ SchFrame

\* run: runLock.Lock, the run context, setCancelFunc(runCancel), the reconcile call
schRunBegin(w) ==
    /\ w \in DOMAIN schRuns
    /\ schRuns[w].pc = "lock"
    /\ schRunLock = 0
    /\ schRunLock' = w
    /\ schRunCtx' = w
    /\ schCancelFunc' = w
    /\ schRuns' = [schRuns EXCEPT ![w].pc = "running"]
    /\ call' = NoCall
    /\ ret' = Nil
    /\ emits' = <<Redraw>>
    /\ UNCHANGED <<schSettings, tasks, schWaits, schAcks>>
    /\ SchFrame

\* run: <-s.runCtx.Done() returns; the deferred setCancelFunc(nil), reconcile call,
\* runCancel and Unlock; Handle returns nil
schRunDone(w) ==
    /\ w \in DOMAIN schRuns
    /\ schRuns[w].pc = "running"
    /\ schRuns[w].cancelled
    /\ schCancelFunc' = 0
    /\ schRunLock' = 0
    /\ schRuns' = [schRuns EXCEPT ![w].pc = "done"]
    /\ call' = NoCall
    /\ ret' = Nil
    /\ emits' = <<Redraw>>
    /\ UNCHANGED <<schSettings, schRunCtx, tasks, schWaits, schAcks>>
    /\ SchFrame

\* addOrUpdateTask without the isRunning check
addOrUpdateTaskUnchecked(running, duration) ==
    IF duration < 0 THEN "scheduled time is past" ELSE Nil

\* addOrUpdateTask: the error it returns before it touches the tasks
addOrUpdateTaskError(running, duration) ==
    IF ~running THEN "scheduler is not running"
    ELSE IF duration < 0 THEN "scheduled time is past"
    ELSE Nil

\* Handle, InPort, up to the ack: addOrUpdateTask(t.ID, t.Schedule,
\* t.DateTime.Sub(time.Now()), f).  The timer of the new task fires when the clock
\* reaches t.DateTime; its goroutine selects on the run context current at its start.
\* With the ack port enabled the call goes on in SchAck, one such call at a time.
SchIn(in) ==
    LET t == in.Task
        duration == t.DateTime - now
        ackErr == addOrUpdateTaskError(schCancelFunc # 0, duration)
        stopped == IF MapHas(tasks, t.ID)
                   THEN [schWaits EXCEPT ![tasks[t.ID]].stopped = TRUE]
                   ELSE schWaits
        free == (1..MaxSchWaits) \ DOMAIN schWaits
        g == IF ackErr = Nil /\ t.Schedule /\ free # {}
             THEN CHOOSE i \in free : \A j \in free : i <= j
             ELSE 0
        ack == [Task |-> t, Context |-> in.Context,
                ScheduledIn |-> IF t.Schedule THEN duration ELSE 0, Error |-> ackErr]
    IN  /\ call' = [port |-> InPort, leader |-> FALSE, msg |-> in]
        /\ emits' = <<>>
        /\ IF ackErr # Nil
           THEN UNCHANGED <<tasks, schWaits>>
           ELSE IF ~t.Schedule
           THEN /\ tasks' = MapDelete(tasks, t.ID)
                /\ schWaits' = stopped
           ELSE /\ g # 0
                /\ tasks' = MapSet(tasks, t.ID, g)
                /\ schWaits' = [x \in (DOMAIN schWaits) \cup {g} |->
                                   IF x = g
                                   THEN [task |-> in, stopped |-> FALSE, pc |-> "waiting",
                                         ctx |-> schRunCtx]
                                   ELSE stopped[x]]
        /\ IF schSettings.EnableAckPort
           THEN /\ schAcks = <<>>
                /\ schAcks' = <<[ack |-> ack, g |-> g]>>
                /\ ret' = Nil
           ELSE /\ ret' = ackErr
                /\ UNCHANGED schAcks
        /\ UNCHANGED <<schSettings, schCancelFunc, schRunCtx, schRunLock, schRuns>>
        /\ SchFrame

\* Handle, InPort, from the ack on: handler(ctx, AckPort, ack); the call returns what
\* the handler returned
SchAck(result) ==
    /\ schAcks # <<>>
    /\ schAcks' = Tail(schAcks)
    /\ call' = NoCall
    /\ ret' = result
    /\ emits' = <<Emit(AckPort, Head(schAcks).ack)>>
    /\ UNCHANGED <<schSettings, schCancelFunc, schRunCtx, schRunLock, schRuns, tasks,
                   schWaits>>
    /\ SchFrame

SchWaitFrame ==
    /\ call' = NoCall
    /\ ret' = Nil
    /\ UNCHANGED <<schSettings, schCancelFunc, schRunCtx, schRunLock, schRuns, schAcks>>
    /\ SchFrame

\* waitTask: select takes <-d.timer.C; d.call emits the task on Out
waitTaskFire(g) ==
    /\ g \in DOMAIN schWaits
    /\ schWaits[g].pc = "waiting"
    /\ ~schWaits[g].stopped
    /\ now >= schWaits[g].task.Task.DateTime
    /\ schWaits' = [schWaits EXCEPT ![g].pc = "calling"]
    /\ emits' = <<Emit(OutPort, [Task |-> schWaits[g].task.Task,
                                 Context |-> schWaits[g].task.Context])>>
    /\ UNCHANGED tasks
    /\ SchWaitFrame

\* waitTask: d.call returns; the deferred s.tasks.Remove(d.id)
waitTaskReturn(g) ==
    /\ g \in DOMAIN schWaits
    /\ schWaits[g].pc = "calling"
    /\ schWaits' = [x \in DOMAIN schWaits \ {g} |-> schWaits[x]]
    /\ tasks' = MapDelete(tasks, schWaits[g].task.Task.ID)
    /\ emits' = <<>>
    /\ SchWaitFrame

\* waitTask: select takes <-s.runCtx.Done(); the deferred s.tasks.Remove(d.id)
waitTaskDone(g) ==
    /\ g \in DOMAIN schWaits
    /\ schWaits[g].pc = "waiting"
    /\ schWaits[g].ctx # 0
    /\ schRuns[schWaits[g].ctx].cancelled
    /\ schWaits' = [x \in DOMAIN schWaits \ {g} |-> schWaits[x]]
    /\ tasks' = MapDelete(tasks, schWaits[g].task.Task.ID)
    /\ emits' = <<>>
    /\ SchWaitFrame

\* a second passes
SchTick ==
    /\ now < MaxSchTime
    /\ now' = now + 1
    /\ call' = NoCall
    /\ ret' = Nil
    /\ emits' = <<>>
    /\ node' = node
    /\ heldAtEmit' = {}
    /\ UNCHANGED <<metadata, kvVars, sigVars, tkVars, schVars, asyncVars, injVars, splitVars, gbVars>>
    /\ UNCHANGED <<cronSettings, cronCancel, nextTick, settingsFromPort, lastError, runMu,
                   cronWorkers, cronStopped>>

\* Instance()
SchInstance ==
    /\ schSettings = [EnableAckPort |-> FALSE, EnableStopPort |-> FALSE]
    /\ schCancelFunc = 0
    /\ schRunCtx = 0
    /\ schRunLock = 0
    /\ schRuns = <<>>
    /\ tasks = EmptyMap
    /\ schWaits = EmptyMap
    /\ schAcks = <<>>

SchSettingsIn ==
    { [EnableAckPort |-> FALSE, EnableStopPort |-> FALSE],
      [EnableAckPort |-> TRUE, EnableStopPort |-> TRUE] }

SchControlIn ==
    { <<StartPort, [kind |-> "Start"]>>,
      <<StopPort, [kind |-> "Stop"]>>,
      <<ControlPort, NilMsg>>,
      <<ControlPort, [kind |-> "StartControl"]>>,
      <<ControlPort, [kind |-> "StopControl"]>> }

\* task messages: two submissions of t1, due at seconds 0 and 1, and its unscheduling
\* with and without a dateTime
SchTasksIn ==
    { [Context |-> "a", Task |-> [ID |-> "t1", DateTime |-> 0, Schedule |-> TRUE]],
      [Context |-> "b", Task |-> [ID |-> "t1", DateTime |-> 1, Schedule |-> TRUE]],
      [Context |-> Nil, Task |-> [ID |-> "t1", DateTime |-> 1, Schedule |-> FALSE]],
      [Context |-> Nil, Task |-> [ID |-> "t1", DateTime |-> ZeroTime, Schedule |-> FALSE]] }

\* Handle, the run invocations, the waitTask goroutines and the clock
SchNext ==
    \/ \E in \in SchSettingsIn : SchSettings(in)
    \/ \E c \in SchControlIn : SchControl(c[1], c[2])
    \/ \E in \in SchTasksIn : SchIn(in)
    \/ \E result \in AckResults : SchAck(result)
    \/ \E w \in 1..MaxSchRuns : schRunBegin(w)
    \/ \E w \in 1..MaxSchRuns : schRunDone(w)
    \/ \E g \in 1..MaxSchWaits : waitTaskFire(g)
    \/ \E g \in 1..MaxSchWaits : waitTaskReturn(g)
    \/ \E g \in 1..MaxSchWaits : waitTaskDone(g)
    \/ SchTick

-----------------------------------------------------------------------------
(***************************************************************************)
(* async: pass-through that emits in a background goroutine                 *)
(***************************************************************************)

defaultMaxConcurrency == 100

MaxAsyncWorkers == 3

\* Handle, SettingsPort: the capacity of the semaphore made for settings `in`
maxConc(in) ==
    IF in.MaxConcurrency <= 0 THEN defaultMaxConcurrency ELSE in.MaxConcurrency

AsyncFrame ==
    /\ node' = node
    /\ heldAtEmit' = {}
    /\ UNCHANGED <<metadata, kvVars, sigVars, cronVars, tkVars, schVars, injVars, splitVars, gbVars>>

\* Handle, SettingsPort: the settings are stored and the semaphore is made anew
AsyncSettings(in) ==
    /\ call' = [port |-> SettingsPort, leader |-> FALSE, msg |-> in]
    /\ ret' = Nil
    /\ emits' = <<>>
    /\ asyncSettings' = in
    /\ semaphore' = [cap |-> maxConc(in), len |-> 0]
    /\ UNCHANGED asyncWorkers
    /\ AsyncFrame

\* an In handler that returns without emitting when the semaphore is full
AsyncInDropsWhenFull(in, result) ==
    LET free == (1..MaxAsyncWorkers) \ DOMAIN asyncWorkers
        w == CHOOSE i \in free : \A j \in free : i <= j
    IN  /\ call' = [port |-> InPort, leader |-> FALSE, msg |-> in]
        /\ IF semaphore.len < semaphore.cap
           THEN /\ free # {}
                /\ semaphore' = [semaphore EXCEPT !.len = @ + 1]
                /\ asyncWorkers' = [x \in (DOMAIN asyncWorkers) \cup {w} |->
                                       IF x = w
                                       THEN [pc |-> "spawned", ctx |-> in.Context]
                                       ELSE asyncWorkers[x]]
           ELSE UNCHANGED <<semaphore, asyncWorkers>>
        /\ ret' = Nil
        /\ emits' = <<>>
        /\ UNCHANGED asyncSettings
        /\ AsyncFrame

\* Handle, InPort: a slot of the semaphore and a goroutine, or the emit on the caller
AsyncIn(in, result) ==
    LET free == (1..MaxAsyncWorkers) \ DOMAIN asyncWorkers
        w == CHOOSE i \in free : \A j \in free : i <= j
    IN  /\ call' = [port |-> InPort, leader |-> FALSE, msg |-> in]
        /\ IF semaphore.len < semaphore.cap
           THEN /\ free # {}
                /\ semaphore' = [semaphore EXCEPT !.len = @ + 1]
                /\ asyncWorkers' = [x \in (DOMAIN asyncWorkers) \cup {w} |->
                                       IF x = w
                                       THEN [pc |-> "spawned", ctx |-> in.Context]
                                       ELSE asyncWorkers[x]]
                /\ ret' = Nil
                /\ emits' = <<>>
           ELSE /\ emits' = <<Emit(OutPort, in.Context)>>
                /\ ret' = result
                /\ UNCHANGED <<semaphore, asyncWorkers>>
        /\ UNCHANGED asyncSettings
        /\ AsyncFrame

AsyncWorkerFrame ==
    /\ call' = NoCall
    /\ ret' = Nil
    /\ UNCHANGED asyncSettings
    /\ AsyncFrame

\* the goroutine: handler(ctx, OutPort, in.Context)
asyncCall(w) ==
    /\ w \in DOMAIN asyncWorkers
    /\ asyncWorkers[w].pc = "spawned"
    /\ asyncWorkers' = [asyncWorkers EXCEPT ![w].pc = "calling"]
    /\ emits' = <<Emit(OutPort, asyncWorkers[w].ctx)>>
    /\ UNCHANGED semaphore
    /\ AsyncWorkerFrame

\* the goroutine: the handler returns; the deferred <-t.semaphore receives from the
\* channel the field now holds, and blocks while that channel is empty
asyncReturn(w) ==
    /\ w \in DOMAIN asyncWorkers
    /\ asyncWorkers[w].pc = "calling"
    /\ IF semaphore.len > 0
       THEN /\ semaphore' = [semaphore EXCEPT !.len = @ - 1]
            /\ asyncWorkers' = [x \in DOMAIN asyncWorkers \ {w} |-> asyncWorkers[x]]
       ELSE /\ asyncWorkers' = [asyncWorkers EXCEPT ![w].pc = "blocked"]
            /\ UNCHANGED semaphore
    /\ emits' = <<>>
    /\ AsyncWorkerFrame

\* the goroutine: the blocked <-t.semaphore receives
asyncUnblock(w) ==
    /\ w \in DOMAIN asyncWorkers
    /\ asyncWorkers[w].pc = "blocked"
    /\ semaphore.len > 0
    /\ semaphore' = [semaphore EXCEPT !.len = @ - 1]
    /\ asyncWorkers' = [x \in DOMAIN asyncWorkers \ {w} |-> asyncWorkers[x]]
    /\ emits' = <<>>
    /\ AsyncWorkerFrame

\* Instance()
AsyncInstance ==
    /\ asyncSettings = [MaxConcurrency |-> defaultMaxConcurrency]
    /\ semaphore = [cap |-> defaultMaxConcurrency, len |-> 0]
    /\ asyncWorkers = EmptyMap

AsyncSettingsIn == [MaxConcurrency : {0, 1, 2}]

AsyncContexts == {"x", "y"}

\* Handle and the goroutines
AsyncNext ==
    \/ \E in \in AsyncSettingsIn : AsyncSettings(in)
    \/ \E c \in AsyncContexts, result \in AckResults : AsyncIn([Context |-> c], result)
    \/ \E w \in 1..MaxAsyncWorkers : asyncCall(w)
    \/ \E w \in 1..MaxAsyncWorkers : asyncReturn(w)
    \/ \E w \in 1..MaxAsyncWorkers : asyncUnblock(w)

-----------------------------------------------------------------------------
(***************************************************************************)
(* inject: attaches the stored config to passing messages                   *)
(***************************************************************************)

ConfigPort  == "config"
MessagePort == "message"
OutputPort  == "output"
ErrorPort   == "error"
injectKeyConfig == "inject-config"

\* config data the Config port delivers, and data only older metadata holds
PortData  == {"v2", "v3"}
StaleData == {"v0", "v1"}

\* json.Unmarshal([]byte(configStr), &config) with config of type any
UnmarshalConfig(configStr) ==
    LET cands == {Nil} \cup PortData \cup StaleData
    IN  IF \E c \in cands : JSONAny(c) = configStr
        THEN [ok |-> TRUE, config |-> CHOOSE c \in cands : JSONAny(c) = configStr]
        ELSE [ok |-> FALSE, config |-> Nil]

InjFrame ==
    /\ node' = node
    /\ heldAtEmit' = {}
    /\ UNCHANGED <<kvVars, sigVars, cronVars, tkVars, schVars, asyncVars, splitVars, gbVars>>

\* Handle, SettingsPort
InjSettings(in) ==
    /\ call' = [port |-> SettingsPort, leader |-> FALSE, msg |-> in]
    /\ ret' = Nil
    /\ emits' = <<>>
    /\ injSettings' = in
    /\ UNCHANGED <<metadata, injConfig, injFromPort>>
    /\ InjFrame

\* handleReconcile without the settingsFromPort check
InjReconcileUnguarded(msg) ==
    /\ call' = [port |-> ReconcilePort, leader |-> FALSE, msg |-> msg]
    /\ ret' = Nil
    /\ emits' = <<>>
    /\ injConfig' =
           IF /\ msg.kind = "TinyNode"
              /\ MapHas(msg.Metadata, injectKeyConfig)
              /\ UnmarshalConfig(msg.Metadata[injectKeyConfig]).ok
           THEN UnmarshalConfig(msg.Metadata[injectKeyConfig]).config
           ELSE injConfig
    /\ UNCHANGED <<metadata, injSettings, injFromPort>>
    /\ InjFrame

\* handleReconcile
InjReconcile(msg) ==
    /\ call' = [port |-> ReconcilePort, leader |-> FALSE, msg |-> msg]
    /\ ret' = Nil
    /\ emits' = <<>>
    /\ injConfig' =
           IF /\ msg.kind = "TinyNode"
              /\ MapHas(msg.Metadata, injectKeyConfig)
              /\ ~injFromPort
              /\ UnmarshalConfig(msg.Metadata[injectKeyConfig]).ok
           THEN UnmarshalConfig(msg.Metadata[injectKeyConfig]).config
           ELSE injConfig
    /\ UNCHANGED <<metadata, injSettings, injFromPort>>
    /\ InjFrame

\* handleConfig without persistConfig
InjConfigUnpersisted(in) ==
    /\ call' = [port |-> ConfigPort, leader |-> FALSE, msg |-> in]
    /\ ret' = Nil
    /\ injConfig' = in.Data
    /\ injFromPort' = TRUE
    /\ emits' = <<>>
    /\ UNCHANGED <<metadata, injSettings>>
    /\ InjFrame

\* handleConfig and persistConfig
InjConfig(in) ==
    /\ call' = [port |-> ConfigPort, leader |-> FALSE, msg |-> in]
    /\ ret' = Nil
    /\ injConfig' = in.Data
    /\ injFromPort' = TRUE
    /\ metadata' = MapSet(metadata, injectKeyConfig, JSONAny(in.Data))
    /\ emits' = <<Mutate("persistConfig")>>
    /\ UNCHANGED injSettings
    /\ InjFrame

\* handleMessage; result is what the handler call returns
InjMessage(in, result) ==
    /\ call' = [port |-> MessagePort, leader |-> FALSE, msg |-> in]
    /\ ret' = result
    /\ emits' =
           IF injSettings.ConfigRequired /\ injConfig = Nil
           THEN <<Emit(ErrorPort, [Context |-> in.Context, Error |-> "config not set"])>>
           ELSE <<Emit(OutputPort, [Context |-> in.Context, Config |-> injConfig])>>
    /\ UNCHANGED <<metadata, injSettings, injConfig, injFromPort>>
    /\ InjFrame

\* Instance()
InjInstance ==
    /\ injSettings = [ConfigRequired |-> FALSE]
    /\ injConfig = Nil
    /\ injFromPort = FALSE

\* the pod restarts: a fresh Instance(), the metadata kept
InjNewPod ==
    /\ ~InjInstance
    /\ injSettings' = [ConfigRequired |-> FALSE]
    /\ injConfig' = Nil
    /\ injFromPort' = FALSE
    /\ call' = NoCall
    /\ ret' = Nil
    /\ emits' = <<>>
    /\ UNCHANGED metadata
    /\ InjFrame

\* metadata snapshots a delayed reconcile may carry
InjStaleMetadata ==
    { EmptyMap,
      injectKeyConfig :> JSONAny("v0"),
      ("owner" :> "flow") @@ (injectKeyConfig :> JSONAny("v1")),
      injectKeyConfig :> "not json" }

\* Handle and the pod restart
InjNext ==
    \/ \E in \in [ConfigRequired : BOOLEAN] : InjSettings(in)
    \/ \E m \in InjStaleMetadata \cup {metadata} : InjReconcile(TinyNode(m))
    \/ InjReconcile(NotATinyNode)
    \/ \E d \in PortData : InjConfig([Data |-> d])
    \/ \E c \in {"m1", "m2"}, result \in AckResults : InjMessage([Context |-> c], result)
    \/ InjNewPod

-----------------------------------------------------------------------------
(* split: one emit on Out per item of an array                              *)

MaxSplitLen == 3
SplitItems == {"a", "b"}

\* msg.(InMessage)
IsInMessage(msg) == DOMAIN msg = {"Context", "Array"}

SplitFrame ==
    /\ node' = node
    /\ heldAtEmit' = {}
    /\ metadata' = metadata
    /\ UNCHANGED <<kvVars, sigVars, cronVars, tkVars, schVars, asyncVars, injVars, gbVars>>

\* handler(ctx, OutPort, OutMessage{Context: in.Context, Item: item}) for the i-th item
SplitEmitItem(msg, i) == Emit(OutPort, [Context |-> msg.Context, Item |-> msg.Array[i]])

\* Handle up to its first handler call; the port argument is not looked at
SplitHandle(port, msg) ==
    /\ splitPc \in {"idle", "done"}
    /\ call' = [port |-> port, leader |-> FALSE, msg |-> msg]
    /\ splitMsg' = msg
    /\ splitResults' = <<>>
    /\ IF ~IsInMessage(msg)
       THEN /\ ret' = "invalid message"
            /\ emits' = <<>>
            /\ splitOut' = <<>>
            /\ splitPc' = "done"
       ELSE IF msg.Array = <<>>
       THEN /\ ret' = Nil
            /\ emits' = <<>>
            /\ splitOut' = <<>>
            /\ splitPc' = "done"
       ELSE /\ ret' = Nil
            /\ emits' = <<SplitEmitItem(msg, 1)>>
            /\ splitOut' = <<SplitEmitItem(msg, 1)>>
            /\ splitPc' = "emitting"
    /\ SplitFrame

\* the loop of Handle without the check of the handler's result
SplitEmitReturnUnchecked(result) ==
    /\ splitPc = "emitting"
    /\ splitResults' = Append(splitResults, result)
    /\ IF Len(splitOut) < Len(splitMsg.Array)
       THEN /\ emits' = <<SplitEmitItem(splitMsg, Len(splitOut) + 1)>>
            /\ splitOut' = Append(splitOut, SplitEmitItem(splitMsg, Len(splitOut) + 1))
            /\ UNCHANGED <<ret, splitPc>>
       ELSE /\ ret' = Nil
            /\ splitPc' = "done"
            /\ emits' = <<>>
            /\ splitOut' = splitOut
    /\ UNCHANGED <<call, splitMsg>>
    /\ SplitFrame

\* Handle from the return of a handler call to the next handler call or to its return
SplitEmitReturn(result) ==
    /\ splitPc = "emitting"
    /\ splitResults' = Append(splitResults, result)
    /\ IF result # Nil
       THEN /\ ret' = result
            /\ splitPc' = "done"
            /\ emits' = <<>>
            /\ splitOut' = splitOut
       ELSE IF Len(splitOut) < Len(splitMsg.Array)
       THEN /\ emits' = <<SplitEmitItem(splitMsg, Len(splitOut) + 1)>>
            /\ splitOut' = Append(splitOut, SplitEmitItem(splitMsg, Len(splitOut) + 1))
            /\ UNCHANGED <<ret, splitPc>>
       ELSE /\ ret' = Nil
            /\ splitPc' = "done"
            /\ emits' = <<>>
            /\ splitOut' = splitOut
    /\ UNCHANGED <<call, splitMsg>>
    /\ SplitFrame

\* no Handle invocation yet
SplitInstance ==
    /\ splitPc = "idle"
    /\ splitMsg = Nil
    /\ splitOut = <<>>
    /\ splitResults = <<>>

SplitArrays == UNION { [1..n -> SplitItems] : n \in 0..MaxSplitLen }
SplitMessages == [Context : {"x", "y"}, Array : SplitArrays]
\* a payload of another type
SplitInvalid == [Int |-> 1]

SplitNext ==
    \/ \E port \in {"", InPort}, msg \in SplitMessages : SplitHandle(port, msg)
    \/ \E port \in {"", InPort} : SplitHandle(port, SplitInvalid)
    \/ \E result \in AckResults : SplitEmitReturn(result)

-----------------------------------------------------------------------------
(* groupby: partition an array of items by the value at a path              *)

MaxGbItems == 2

\* a map[string]any value
Obj(m) == <<"object", m>>
IsObject(v) == v[1] = "object"

GbFrame ==
    /\ node' = node
    /\ heldAtEmit' = {}
    /\ metadata' = metadata
    /\ UNCHANGED <<kvVars, sigVars, cronVars, tkVars, schVars, asyncVars, injVars, splitVars>>

\* strings.Split(path, "."), for the paths of GbSettingsIn
SplitDots(path) == IF path = "labels.app" THEN <<"labels", "app">> ELSE <<path>>

RECURSIVE extractPath(_, _)
\* nil is Nil; a string or number has no fields, so a further part gives ""
extractPath(current, pathParts) ==
    IF pathParts = <<>>
    THEN (IF current = Nil THEN "" ELSE current[2])
    ELSE IF current = Nil THEN ""
    ELSE IF IsObject(current)
         THEN extractPath(IF Head(pathParts) \in DOMAIN current[2]
                          THEN current[2][Head(pathParts)] ELSE Nil,
                          Tail(pathParts))
         ELSE ""

\* groups, after the loop over in.Items: key -> the items with that key, in input order
groupItems(items, pathParts) ==
    LET keyOf(i) == extractPath(items[i], pathParts)
        match(k) == { i \in 1..Len(items) : keyOf(i) = k }
        RECURSIVE pick(_, _)
        pick(k, i) == IF i > Len(items) THEN <<>>
                      ELSE (IF i \in match(k) THEN <<items[i]>> ELSE <<>>) \o pick(k, i + 1)
    IN  [k \in { keyOf(i) : i \in 1..Len(items) } |-> pick(k, 1)]

\* the orders in which `for key, items := range groups` can visit the keys
RangeOrders(groups) ==
    { o \in [1..Cardinality(DOMAIN groups) -> DOMAIN groups] :
          \A i, j \in DOMAIN o : i # j => o[i] # o[j] }

\* Handle, SettingsPort
GbSettings(in) ==
    /\ call' = [port |-> SettingsPort, leader |-> FALSE, msg |-> in]
    /\ ret' = Nil
    /\ emits' = <<>>
    /\ gbSettings' = in
    /\ GbFrame

\* Handle, InPort: handleGroupBy
handleGroupBy(in, result) ==
    /\ call' = [port |-> InPort, leader |-> FALSE, msg |-> in]
    /\ IF gbSettings.GroupByPath = ""
       THEN /\ ret' = "groupByPath is required in settings"
            /\ emits' = <<>>
       ELSE LET groups == groupItems(in.Items, SplitDots(gbSettings.GroupByPath))
            IN  \E o \in RangeOrders(groups) :
                    /\ emits' = <<Emit(OutPort,
                                   [Context |-> in.Context,
                                    Groups  |-> [i \in DOMAIN o |->
                                                  [Key   |-> o[i],
                                                   Items |-> groups[o[i]],
                                                   Count |-> Len(groups[o[i]])]],
                                    Total   |-> Len(in.Items)])>>
                    /\ ret' = result
    /\ UNCHANGED gbSettings
    /\ GbFrame

GbInstance == gbSettings = [GroupByPath |-> ""]

GbSettingsIn == [GroupByPath : {"", "kind", "labels.app"}]
GbItems ==
    { Obj([kind |-> Str("pod"), labels |-> Obj([app |-> Str("web")])]),
      Obj([kind |-> Str("job"), labels |-> Obj([app |-> Str("api")])]),
      Obj([kind |-> Str("pod")]),
      Obj([kind |-> Str("job"), labels |-> Str("none")]) }
GbMessages == [Context : {"x", "y"}, Items : UNION { [1..n -> GbItems] : n \in 0..MaxGbItems }]

GbNext ==
    \/ \E in \in GbSettingsIn : GbSettings(in)
    \/ \E in \in GbMessages, result \in AckResults : handleGroupBy(in, result)

-----------------------------------------------------------------------------
(***************************************************************************)
(* Specifications: one per component, every other component idle at its     *)
(* Instance() state                                                         *)
(***************************************************************************)

InitInstances ==
    /\ InitKVState
    /\ SigInstance /\ hostState = NoState /\ stateWrites = {}
    /\ CronInstance /\ now = 0
    /\ TkInstance
    /\ SchInstance
    /\ AsyncInstance
    /\ InjInstance
    /\ SplitInstance
    /\ GbInstance

\* a kv node whose metadata already holds a key of another owner; reconciles may
\* carry stale snapshots
InitKV == InitShared("kv") /\ metadata = ("owner" :> "flow") /\ InitInstances
SpecKV == InitKV /\ [][KVNext]_vars

\* a kv node starting fresh, the host applying every mutation before it reconciles
InitKVHost == InitShared("kv") /\ metadata = EmptyMap /\ InitInstances
SpecKVHost == InitKVHost /\ [][KVHostNext]_vars

InitSignal == InitShared("signal") /\ metadata = EmptyMap /\ InitInstances
SpecSignal == InitSignal /\ [][SigNext]_vars

\* the host keeps redelivering the state to the leader, and goroutines that can run
\* do run; when the downstream lets the emit return is left open
SpecSignalHost ==
    /\ InitSignal
    /\ [][SigHostNext]_vars
    /\ WF_vars(SigStatePort(TRUE, hostState))
    /\ \A w \in 1..MaxSigWorkers :
           WF_vars(runBlockingHandlerStart(w)) /\ WF_vars(runBlockingHandlerExit(w))

InitCron == InitShared("cron") /\ metadata = EmptyMap /\ InitInstances
SpecCron == InitCron /\ [][CronNext]_vars

InitTicker == InitShared("ticker") /\ metadata = EmptyMap /\ InitInstances
SpecTicker == InitTicker /\ [][TkNext]_vars

InitScheduler == InitShared("scheduler") /\ metadata = EmptyMap /\ InitInstances
SpecScheduler == InitScheduler /\ [][SchNext]_vars

\* a goroutine started with `go` gets to make its handler call
InitAsync == InitShared("async") /\ metadata = EmptyMap /\ InitInstances
SpecAsync ==
    /\ InitAsync
    /\ [][AsyncNext]_vars
    /\ \A w \in 1..MaxAsyncWorkers : WF_vars(asyncCall(w))

InitInject == InitShared("inject") /\ metadata = EmptyMap /\ InitInstances
SpecInject == InitInject /\ [][InjNext]_vars

InitSplit == InitShared("split") /\ metadata = EmptyMap /\ InitInstances
SpecSplit == InitSplit /\ [][SplitNext]_vars

InitGroupBy == InitShared("groupby") /\ metadata = EmptyMap /\ InitInstances
SpecGroupBy == InitGroupBy /\ [][GbNext]_vars

\* the three leader-only sources, one of them driven
InitSources ==
    /\ \E kind \in {"signal", "cron", "ticker"} : InitShared(kind)
    /\ metadata = EmptyMap
    /\ InitInstances
SourcesNext ==
    \/ node = "signal" /\ SigNext
    \/ node = "cron" /\ CronNext
    \/ node = "ticker" /\ TkNext
SpecSources == InitSources /\ [][SourcesNext]_vars

-----------------------------------------------------------------------------
(***************************************************************************)
(* Properties                                                               *)
(***************************************************************************)

\* the kv-* entries of a reconcile message that differ from the records
KVDiffering(msg) ==
    {k \in DOMAIN KVEntries(msg.Metadata) :
        k \notin DOMAIN records \/ records[k] # KVEntries(msg.Metadata)[k]}

\* C1: once storeUsed is set, a reconcile delivery, whatever metadata it carries,
\* leaves records unchanged; and storeUsed, once set, is cleared by nothing but a
\* Reset on the control port.
C1_GuardedReconcile ==
    [][ /\ (storeUsed /\ call'.port = ReconcilePort) => records' = records
        /\ (storeUsed /\ ~storeUsed') => (call'.port = ControlPort /\ call'.msg.Reset)
      ]_vars

\* a reconcile carrying entries that differ from the records was just handled with
\* the guard set, after stores and a delete had filled the store with one record
C1_Witness ==
    /\ call.port = ReconcilePort
    /\ storeUsed
    /\ call.msg.kind = "TinyNode"
    /\ Cardinality(KVDiffering(call.msg)) >= 2
    /\ Cardinality(DOMAIN records) = 1

\* C8 as stated: the number of records never exceeds the configured maxRecords
C8_RecordsWithinMax ==
    Cardinality(DOMAIN records) <= kvSettings.MaxRecords

\* the primary key of the request of the most recent Store-port invocation
LastStoredKey == call.msg.Document[kvSettings.PrimaryKey][2]

\* C9: with the host applying every mutation to initially empty metadata, the kv-*
\* entries mirror the records: kv-<pk> exists iff pk is a record, with the same
\* bytes; and after an accepted store the record of its primary key is the JSON of
\* the stored document (so store, delete, store again leaves that one document).
C9_MetadataMirrorsRecords ==
    /\ KVEntries(metadata) = records
    /\ (call.port = StorePort /\ call.msg.Operation = OpStore /\ emits # <<>>)
          => /\ MapHas(records, LastStoredKey)
             /\ records[LastStoredKey] = Marshal(call.msg.Document)
             /\ metadata[metadataPrefix \o LastStoredKey] = Marshal(call.msg.Document)

\* a document was just stored over an older one of the same key while another
\* record exists
C9_Witness ==
    /\ call.port = StorePort
    /\ call.msg.Operation = OpStore
    /\ call.msg.Document = DocA2
    /\ emits # <<>>
    /\ DOMAIN records = {"a", "b"}
    /\ metadata["kv-a"] = "{\"id\":\"a\",\"status\":\"DOWN\"}"

\* C10: a Reset on control leaves no record, the guard cleared and no kv-* key in
\* the metadata, and emits a control update reporting 0 records; a control message
\* with Reset = false changes neither the component nor the metadata and emits
\* nothing.
C10_Reset ==
    [][ call'.port = ControlPort =>
          IF call'.msg.Reset
          THEN /\ records' = EmptyMap
               /\ ~storeUsed'
               /\ \A k \in DOMAIN metadata' : ~HasPrefix(k, metadataPrefix)
               /\ \E i \in DOMAIN emits' : emits'[i] = Emit(ControlPort, [Records |-> 0])
               /\ \A k \in DOMAIN metadata :
                      ~HasPrefix(k, metadataPrefix) =>
                          MapHas(metadata', k) /\ metadata'[k] = metadata[k]
          ELSE /\ UNCHANGED <<kvVars, metadata>>
               /\ emits' = <<>>
      ]_vars

\* a Reset was just handled: the foreign key is all that is left of the metadata
C10_Witness ==
    /\ call.port = ControlPort
    /\ call.msg.Reset
    /\ emits # <<>>
    /\ records = EmptyMap
    /\ ~storeUsed
    /\ DOMAIN metadata = {"owner"}

\* the signal goroutines whose emit on Out is in flight and not cancelled
SigUncancelled == {w \in SigEmitting : ~sigWorkers[w].cancelled}

\* C2 as stated: with no emission on Out in flight ResetEnable is false; with an
\* emission in flight and not cancelled ResetEnable is true
C2_ResetEnableTracksEmit ==
    /\ SigEmitting = {} => ~ResetEnable
    /\ SigUncancelled # {} => ResetEnable

\* a failed Send: the leader's control invocation returned the error of the state
\* write of a running state
SigSendFailed ==
    /\ call.port = ControlPort
    /\ ret # Nil
    /\ emits # <<>>
    /\ emits[1].data.op = "state"
    /\ emits[1].data.data # NoState

\* C3: every emit on Out, and every goroutine launched to make one, carries the
\* context of a running state the host had accepted before; a Send whose state
\* write fails launches no goroutine, starts no emit on Out and leaves the host's
\* state as it was.
C3_EmitAfterStateWrite ==
    [][ /\ \A i \in DOMAIN emits' :
               emits'[i].port = OutPort =>
                   MarshalState([Context |-> emits'[i].data]) \in stateWrites
        /\ \A w \in DOMAIN sigWorkers' :
               w \notin DOMAIN sigWorkers =>
                   MarshalState([Context |-> sigWorkers'[w].ctx]) \in stateWrites
        /\ SigSendFailed' =>
               /\ DOMAIN sigWorkers' \subseteq DOMAIN sigWorkers
               /\ \A i \in DOMAIN emits' : emits'[i].port # OutPort
               /\ UNCHANGED <<hostState, stateWrites>>
      ]_vars

\* an emit on Out with the context of the state the host holds has just started
C3_Witness ==
    /\ emits = <<Emit(OutPort, "go")>>
    /\ hostState = MarshalState([Context |-> "go"])
    /\ SigUncancelled # {}

\* C4 as stated: a running state delivered on the state port while no emit on Out is
\* in flight makes the leader launch exactly one blocking emit, with the context of
\* the delivered state, and makes a non-leader mirror the state without launching
\* or cancelling anything.
C4_StateDeliveryResumes ==
    [][ (call'.port = StatePort /\ sigIsRunning' /\ SigEmitting = {}) =>
          IF call'.leader
          THEN \E w \in DOMAIN sigWorkers' :
                   /\ w \notin DOMAIN sigWorkers
                   /\ DOMAIN sigWorkers' = DOMAIN sigWorkers \cup {w}
                   /\ sigWorkers'[w].ctx = sigState'.Context
          ELSE /\ UNCHANGED <<sigWorkers, activeHandlerCancel, hostState>>
               /\ emits' = <<>>
      ]_vars

\* C5: a control message delivered with a context that is not leader returns null
\* and changes nothing: no metadata or host state write, no goroutine launched or
\* cancelled, no emit of any kind -- for signal, cron and ticker alike.
C5_ControlNeedsLeader ==
    [][ (call'.port = ControlPort /\ ~call'.leader) =>
          /\ ret' = Nil
          /\ emits' = <<>>
          /\ UNCHANGED <<metadata, kvVars, sigVars, cronVars, tkVars>>
      ]_vars

\* a non-leader cron has just been handed a valid Start and a Stop would have had
\* a worker to cancel: nothing is running for the Start, the worker is untouched
C5_Witness ==
    /\ node = "cron"
    /\ call.port = ControlPort
    /\ ~call.leader
    /\ call.msg # NilMsg
    /\ call.msg.Start
    /\ cronCancel # 0
    /\ ~cronWorkers[cronCancel].cancelled
    /\ Cardinality(DOMAIN cronWorkers) = 1

\* C6 as stated: on a reconcile carrying cron-running, an instance without a worker
\* launches one iff the call is leader's, restoring schedule and context when the
\* guard is unset; a non-leader restores and launches nothing; an instance that has
\* a worker launches no second one.
C6_ReconcileResumes ==
    [][ (/\ call'.port = ReconcilePort
         /\ call'.msg.kind = "TinyNode"
         /\ MapHas(call'.msg.Metadata, metadataKeyRunning)) =>
          LET m == call'.msg.Metadata
              restored ==
                  ~settingsFromPort =>
                      /\ (MapHas(m, metadataKeySchedule) /\ m[metadataKeySchedule] # "")
                             => cronSettings'.Schedule = m[metadataKeySchedule]
                      /\ (MapHas(m, metadataKeyContext)
                             /\ UnmarshalContext(m[metadataKeyContext]).ok)
                             => JSONAny(cronSettings'.Context) = m[metadataKeyContext]
          IN  IF DOMAIN cronWorkers # {}
              THEN cronWorkers' = cronWorkers
              ELSE /\ restored
                   /\ emits' = <<>>
                   /\ IF call'.leader
                      THEN Cardinality(DOMAIN cronWorkers') = 1
                      ELSE cronWorkers' = cronWorkers
      ]_vars

\* C7: with settingsFromPort set -- as every settings delivery and every valid Start
\* handled by the leader leaves it -- a reconcile changes neither the schedule nor
\* the context, whatever cron-schedule and cron-context it carries.
C7_GuardedCronReconcile ==
    [][ /\ (settingsFromPort /\ call'.port = ReconcilePort) => cronSettings' = cronSettings
        /\ call'.port = SettingsPort => settingsFromPort'
        /\ (/\ call'.port = ControlPort
            /\ call'.leader
            /\ call'.msg # NilMsg
            /\ ~call'.msg.Stop
            /\ ParsePeriod(call'.msg.Schedule) # 0) => settingsFromPort'
      ]_vars

\* a reconcile carrying another schedule and another context than the settings was
\* just handled with the guard set
C7_Witness ==
    /\ call.port = ReconcilePort
    /\ settingsFromPort
    /\ call.msg.kind = "TinyNode"
    /\ MapHas(call.msg.Metadata, metadataKeySchedule)
    /\ call.msg.Metadata[metadataKeySchedule] = EveryTwo
    /\ cronSettings.Schedule = DefaultSchedule
    /\ call.msg.Metadata[metadataKeyContext] # JSONAny(cronSettings.Context)


\* C11 as stated: after a reconcile carrying a TinyNode is handled with the guard
\* unset, the records are exactly the kv-* entries of the delivered metadata, keyed
\* without the prefix
C11_ReconcileRepopulates ==
    [][ (call'.port = ReconcilePort /\ call'.msg.kind = "TinyNode" /\ ~storeUsed)
            => records' = KVEntries(call'.msg.Metadata)
      ]_vars

StoreRejections ==
    { "primary key not found in document", "primary key must be a string",
      "primary key cannot be empty", "document too large", "store full" }

\* C12 as stated: a store whose primary key is missing, not a string or empty, whose
\* encoding exceeds 32768 bytes, or whose key is new while the store is at capacity,
\* returns an error and leaves records, metadata and the guard unchanged; a store of
\* a key already present is accepted even at capacity
C12_RejectedStoreChangesNothing ==
    [][ (call'.port = StorePort /\ call'.msg.Operation = OpStore) =>
          LET req    == call'.msg
              keyErr == StoreKeyError(req)
              pkStr  == req.Document[kvSettings.PrimaryKey][2]
              large  == Len(Marshal(req.Document)) > 32768
              full   == Cardinality(DOMAIN records) >= kvSettings.MaxRecords
              reject == keyErr # Nil \/ large \/ (pkStr \notin DOMAIN records /\ full)
          IN  /\ reject <=> ret' \in StoreRejections
              /\ reject => UNCHANGED <<records, metadata, storeUsed>>
              /\ (keyErr = Nil /\ ~large /\ pkStr \in DOMAIN records)
                    => records' = MapSet(records, pkStr, Marshal(req.Document))
      ]_vars

C14_ControlCancelsFirst ==
    [][ (call'.port = ControlPort /\ call'.leader /\ (call'.msg.Send \/ call'.msg.Reset))
            => \A w \in SigEmitting : sigWorkers'[w].cancelled
      ]_vars

\* C15 as stated: a Reset handled by the leader without error leaves the persisted
\* state deleted and every emit on Out in flight cancelled, and from then on no emit
\* on Out begins until the leader handles a later Send
C15_ResetEndsEmit ==
    [][ /\ (call'.port = ControlPort /\ call'.leader /\ call'.msg.Reset /\ ret' = Nil)
            => /\ hostState' = NoState
               /\ \A w \in SigEmitting : sigWorkers'[w].cancelled
        /\ (emits' # <<>> /\ emits'[1].port = OutPort) => ~sinceSend.reset
      ]_vars


C17_NoAutonomousRetry ==
    [][ (emits' # <<>> /\ emits'[1].port = OutPort) => ~sinceSend.ended ]_vars


\* C18: a valid Start handled by the leader leaves cron-running = "true",
\* cron-schedule = the Start's schedule and cron-context = the JSON of the Start's
\* context in the metadata; a Stop handled by the leader leaves none of cron-running,
\* cron-schedule, cron-context and cron-error there and returns null, running or not
C18_StartStopMetadata ==
    [][ (call'.port = ControlPort /\ call'.leader /\ call'.msg # NilMsg) =>
          /\ (~call'.msg.Stop /\ ParsePeriod(call'.msg.Schedule) # 0) =>
                /\ MapHas(metadata', metadataKeyRunning)
                /\ metadata'[metadataKeyRunning] = "true"
                /\ MapHas(metadata', metadataKeySchedule)
                /\ metadata'[metadataKeySchedule] = call'.msg.Schedule
                /\ MapHas(metadata', metadataKeyContext)
                /\ metadata'[metadataKeyContext] = JSONAny(call'.msg.Context)
          /\ call'.msg.Stop =>
                /\ ret' = Nil
                /\ DOMAIN metadata' \cap {metadataKeyRunning, metadataKeySchedule,
                                         metadataKeyContext, metadataKeyError} = {}
      ]_vars

\* the leader has just handled a valid Start with context "job": the three keys are
\* written and a worker is launched
C18_Witness ==
    /\ call.port = ControlPort
    /\ call.leader
    /\ call.msg # NilMsg
    /\ ~call.msg.Stop
    /\ ParsePeriod(call.msg.Schedule) # 0
    /\ metadata[metadataKeyContext] = "\"job\""
    /\ DOMAIN cronWorkers # {}

\* C19: a Start whose schedule does not parse, handled by the leader, stores the
\* error message under cron-error, writes no other metadata key (cron-running
\* included) and launches no worker; a valid Start leaves no cron-error
C19_InvalidSchedule ==
    [][ (call'.port = ControlPort /\ call'.leader /\ call'.msg # NilMsg /\ ~call'.msg.Stop) =>
          IF ParsePeriod(call'.msg.Schedule) = 0
          THEN /\ MapHas(metadata', metadataKeyError)
               /\ metadata'[metadataKeyError]
                    = "invalid schedule " \o Quote(call'.msg.Schedule) \o ": "
                          \o ParseError(call'.msg.Schedule)
               /\ DOMAIN metadata' = DOMAIN metadata \cup {metadataKeyError}
               /\ \A k \in DOMAIN metadata \ {metadataKeyError} : metadata'[k] = metadata[k]
               /\ cronWorkers' = cronWorkers
               /\ cronCancel' = cronCancel
          ELSE ~MapHas(metadata', metadataKeyError)
      ]_vars

\* the leader has just handled a Start with a schedule that does not parse, on an
\* instance that is not running: the error is stored, nothing else
C19_Witness ==
    /\ call.port = ControlPort
    /\ call.leader
    /\ call.msg # NilMsg
    /\ ~call.msg.Stop
    /\ ParsePeriod(call.msg.Schedule) = 0
    /\ MapHas(metadata, metadataKeyError)
    /\ ~MapHas(metadata, metadataKeyRunning)
    /\ DOMAIN cronWorkers = {}

C21_OneEmitAtATime ==
    [][ /\ \A w \in DOMAIN tkWorkers \cap DOMAIN tkWorkers' :
               /\ tkWorkers[w].pc = "spawned" /\ tkWorkers'[w].pc = "running"
                     => tkWorkers'[w].timer
               /\ tkWorkers[w].pc # "emitting" /\ tkWorkers'[w].pc = "emitting"
                     => /\ tkWorkers[w].timer
                        /\ \A x \in DOMAIN tkWorkers : tkWorkers[x].pc # "emitting"
                        /\ emits' = <<Emit(OutPort, tkSettings.Context)>>
               /\ tkWorkers[w].pc = "emitting" /\ tkWorkers'[w].pc # "emitting"
                     => ~tkWorkers'[w].timer
        /\ (\E i \in 1..Len(emits') : emits'[i].port = OutPort)
               => \E w \in DOMAIN tkWorkers \cap DOMAIN tkWorkers' :
                      tkWorkers[w].pc # "emitting" /\ tkWorkers'[w].pc = "emitting"
        /\ Cardinality({w \in DOMAIN tkWorkers' : tkWorkers'[w].pc = "emitting"}) <= 1
      ]_vars

\* an emit on Out is outstanding while a second emit goroutine waits for runLock
C21_Witness ==
    \E w, x \in DOMAIN tkWorkers :
        tkWorkers[w].pc = "emitting" /\ tkWorkers[x].pc = "spawned"

\* C22: while the scheduler is not started (cancelFunc is nil) a task arriving on the
\* Tasks port creates no timer and is rejected with "scheduler is not running": the
\* handler returns that error when the ack port is disabled; with the ack port
\* enabled the error is in the error field of the ack the call then emits
C22_NotRunningRejects ==
    [][ /\ (call'.port = InPort /\ schCancelFunc = 0) =>
               /\ tasks' = tasks
               /\ schWaits' = schWaits
               /\ emits' = <<>>
               /\ IF schSettings.EnableAckPort
                  THEN /\ Len(schAcks') = 1
                       /\ schAcks'[1].ack.Task = call'.msg.Task
                       /\ schAcks'[1].ack.Error = "scheduler is not running"
                  ELSE /\ ret' = "scheduler is not running"
                       /\ schAcks' = schAcks
        /\ (schAcks # <<>> /\ schAcks' = <<>>) =>
               emits' = <<Emit(AckPort, schAcks[1].ack)>>
      ]_vars

\* an ack carrying the rejection has been emitted, no timer exists
C22_Witness ==
    /\ Len(emits) = 1
    /\ emits[1].port = AckPort
    /\ emits[1].data.Error = "scheduler is not running"
    /\ schCancelFunc = 0
    /\ schWaits = EmptyMap

\* C23: a task with schedule=false arriving at a started scheduler stops and removes
\* the timer pending for its id, whatever dateTime the message carries (none
\* included), so that timer's emit on Out never occurs; it creates no timer
C23_UnscheduleCancels ==
    [][ (call'.port = InPort /\ ~call'.msg.Task.Schedule /\ schCancelFunc # 0) =>
            /\ ~MapHas(tasks', call'.msg.Task.ID)
            /\ DOMAIN schWaits' = DOMAIN schWaits
            /\ \A g \in DOMAIN schWaits :
                   (schWaits[g].task.Task.ID = call'.msg.Task.ID /\ schWaits[g].pc = "waiting")
                       => schWaits'[g].stopped
      ]_vars

\* C24: for each task id at most one timer is pending (its goroutine waits, the timer
\* was not stopped and the run context is not cancelled), and the tasks map leads to
\* it, so that a later task of that id replaces or cancels it
C24_OneTimerPerId ==
    \A in \in SchTasksIn :
        LET pending == {g \in DOMAIN schWaits :
                           /\ schWaits[g].task.Task.ID = in.Task.ID
                           /\ schWaits[g].pc = "waiting"
                           /\ ~schWaits[g].stopped
                           /\ ~schRuns[schWaits[g].ctx].cancelled}
        IN  /\ Cardinality(pending) <= 1
            /\ pending # {} => (MapHas(tasks, in.Task.ID) /\ tasks[in.Task.ID] \in pending)

\* C25: once a Stop has cancelled the run context, and until a new Start, no task is
\* emitted on Out and every arriving task is rejected
C25_StopEndsTasks ==
    [][ ( /\ schCancelFunc # 0
          /\ schRuns[schCancelFunc].cancelled
          /\ \A w \in DOMAIN schRuns : schRuns[w].pc # "lock" ) =>
            /\ \A i \in 1..Len(emits') : emits'[i].port # OutPort
            /\ call'.port = InPort =>
                   /\ tasks' = tasks
                   /\ schWaits' = schWaits
                   /\ IF schSettings.EnableAckPort
                      THEN schAcks'[1].ack.Error # Nil
                      ELSE ret' # Nil
      ]_vars

\* C26: with the ack port enabled every task message is answered by one emit on Ack
\* of its task, context, scheduledIn and error, and the emit on Out of an accepted
\* task does not begin before that ack was emitted
C26_AckBeforeOut ==
    [][ /\ (call'.port = InPort /\ schSettings.EnableAckPort) =>
               /\ Len(schAcks') = 1
               /\ schAcks'[1].ack.Task = call'.msg.Task
               /\ schAcks'[1].ack.Context = call'.msg.Context
        /\ (schAcks # <<>> /\ schAcks' = <<>>) =>
               /\ Len(emits') = 1
               /\ emits'[1] = Emit(AckPort, schAcks[1].ack)
        /\ \A g \in DOMAIN schWaits \cap DOMAIN schWaits' :
               (schWaits[g].pc = "waiting" /\ schWaits'[g].pc = "calling")
                   => \A i \in 1..Len(schAcks) : schAcks[i].g # g
      ]_vars

\* C27: a schedule=true task whose dateTime has passed when it arrives at a started
\* scheduler is accepted without error and its timer is due at once
C27_PastTaskAccepted ==
    [][ ( /\ call'.port = InPort
          /\ call'.msg.Task.Schedule
          /\ call'.msg.Task.DateTime < now
          /\ schCancelFunc # 0
          /\ ~schRuns[schCancelFunc].cancelled ) =>
            /\ MapHas(tasks', call'.msg.Task.ID)
            /\ schWaits'[tasks'[call'.msg.Task.ID]].task = call'.msg
            /\ ~schWaits'[tasks'[call'.msg.Task.ID]].stopped
            /\ IF schSettings.EnableAckPort
               THEN schAcks'[1].ack.Error = Nil
               ELSE ret' = Nil
      ]_vars

\* C28: the number of background goroutines whose emit on Out is outstanding (started
\* and not yet returned) never exceeds the configured maxConcurrency, 100 when the
\* setting is <= 0
C28_WorkersWithinMax ==
    Cardinality({w \in DOMAIN asyncWorkers : asyncWorkers[w].pc \in {"spawned", "calling"}})
        <= maxConc(asyncSettings)

\* C29: a message on In with a free semaphore slot returns nil at once and leaves one
\* new goroutine holding its context; with the semaphore full its context is emitted
\* on Out by the call itself; a goroutine emits its context on Out once, and it does
\* get to emit; nothing else emits on Out
C29_OneEmitPerMessage ==
    /\ [][ /\ call'.port = InPort =>
                  /\ \A x \in DOMAIN asyncWorkers :
                         x \in DOMAIN asyncWorkers' /\ asyncWorkers'[x] = asyncWorkers[x]
                  /\ IF semaphore.len < semaphore.cap
                     THEN /\ ret' = Nil
                          /\ emits' = <<>>
                          /\ \E w \in DOMAIN asyncWorkers' \ DOMAIN asyncWorkers :
                                 /\ DOMAIN asyncWorkers' = DOMAIN asyncWorkers \cup {w}
                                 /\ asyncWorkers'[w] =
                                        [pc |-> "spawned", ctx |-> call'.msg.Context]
                     ELSE /\ emits' = <<Emit(OutPort, call'.msg.Context)>>
                          /\ DOMAIN asyncWorkers' = DOMAIN asyncWorkers
           /\ call'.port # InPort =>
                  LET began == {w \in DOMAIN asyncWorkers \cap DOMAIN asyncWorkers' :
                                    /\ asyncWorkers[w].pc = "spawned"
                                    /\ asyncWorkers'[w].pc = "calling"}
                  IN  /\ DOMAIN asyncWorkers' \subseteq DOMAIN asyncWorkers
                      /\ \A w \in DOMAIN asyncWorkers' :
                             /\ asyncWorkers'[w].ctx = asyncWorkers[w].ctx
                             /\ asyncWorkers'[w].pc = "spawned"
                                    => asyncWorkers[w].pc = "spawned"
                             /\ asyncWorkers[w].pc = "spawned"
                                    => asyncWorkers'[w].pc \in {"spawned", "calling"}
                      /\ \A w \in DOMAIN asyncWorkers \ DOMAIN asyncWorkers' :
                             asyncWorkers[w].pc # "spawned"
                      /\ IF began = {}
                         THEN emits' = <<>>
                         ELSE \E w \in began :
                                  /\ began = {w}
                                  /\ emits' = <<Emit(OutPort, asyncWorkers[w].ctx)>>
         ]_vars
    /\ \A w \in 1..MaxAsyncWorkers :
           (w \in DOMAIN asyncWorkers /\ asyncWorkers[w].pc = "spawned")
               ~> (w \in DOMAIN asyncWorkers /\ asyncWorkers[w].pc = "calling")

\* the semaphore is full and the call has emitted the context itself, while a
\* goroutine's emit is outstanding
C29_Witness ==
    /\ node = "async"
    /\ call.port = InPort
    /\ semaphore.len = semaphore.cap
    /\ emits = <<Emit(OutPort, call.msg.Context)>>
    /\ \E w \in DOMAIN asyncWorkers : asyncWorkers[w].pc = "calling"

\* C30: once the Config port has delivered a config, a reconcile leaves the stored
\* config alone whatever inject-config value its metadata carries; the stored config
\* is the one a Config message delivered, and messages are emitted on Output with it
C30_PortConfigKept ==
    [][ /\ (call'.port = ReconcilePort /\ injFromPort) =>
               injConfig' = injConfig /\ injFromPort'
        /\ call'.port = ConfigPort =>
               injConfig' = call'.msg.Data /\ injFromPort'
        /\ injFromPort' => injConfig' \in PortData
        /\ (call'.port = MessagePort /\ injFromPort) =>
               emits' = <<Emit(OutputPort, [Context |-> call'.msg.Context,
                                            Config |-> injConfig])>>
      ]_vars

\* a reconcile whose metadata carries another config than the port-delivered one has
\* been handled
C30_Witness ==
    /\ injFromPort
    /\ call.port = ReconcilePort
    /\ call.msg.kind = "TinyNode"
    /\ MapHas(call.msg.Metadata, injectKeyConfig)
    /\ UnmarshalConfig(call.msg.Metadata[injectKeyConfig]).ok
    /\ UnmarshalConfig(call.msg.Metadata[injectKeyConfig]).config # injConfig

\* C31: a Config delivery writes the JSON of its data under inject-config, and nothing
\* else changes the metadata, so the key holds the most recent delivery; an instance
\* that has had no Config delivery and is reconciled with that metadata holds the
\* delivered data again (the JSON round trip gives it back), a repeated reconcile
\* leaves it unchanged, and a message is emitted on Output with the stored config
C31_ConfigSurvivesRestart ==
    [][ /\ IF call'.port = ConfigPort
           THEN metadata' = MapSet(metadata, injectKeyConfig, JSONAny(call'.msg.Data))
           ELSE metadata' = metadata
        /\ MapHas(metadata', injectKeyConfig) =>
               \E d \in PortData : metadata'[injectKeyConfig] = JSONAny(d)
        /\ ( /\ call'.port = ReconcilePort
             /\ call'.msg = TinyNode(metadata)
             /\ MapHas(metadata, injectKeyConfig)
             /\ ~injFromPort ) =>
               /\ injConfig' \in PortData
               /\ JSONAny(injConfig') = metadata[injectKeyConfig]
               /\ JSONAny(injConfig) = metadata[injectKeyConfig] => injConfig' = injConfig
        /\ (call'.port = MessagePort /\ injConfig # Nil) =>
               emits' = <<Emit(OutputPort, [Context |-> call'.msg.Context,
                                            Config |-> injConfig])>>
      ]_vars

\* a restarted instance, reconciled, has emitted a message with the config that the
\* metadata holds
C31_Witness ==
    /\ ~injFromPort
    /\ call.port = MessagePort
    /\ MapHas(metadata, injectKeyConfig)
    /\ emits = <<Emit(OutputPort, [Context |-> call.msg.Context, Config |-> injConfig])>>
    /\ injConfig \in PortData
    /\ JSONAny(injConfig) = metadata[injectKeyConfig]

\* C32: split emits the items of the array on Out, in array order, each as
\* {context, item}; an emit begins only when every earlier one has returned nil; when
\* an emit returns an error no further item is emitted and Handle returns that error;
\* when all returned nil Handle has emitted every item and returns nil; a payload that
\* is not an InMessage returns an error without any emit
C32_SplitInOrder ==
    [][ /\ (splitPc' # "idle" /\ IsInMessage(splitMsg')) =>
              /\ Len(splitOut') <= Len(splitMsg'.Array)
              /\ \A i \in 1..Len(splitOut') :
                     splitOut'[i] = [port |-> OutPort,
                                     data |-> [Context |-> splitMsg'.Context,
                                               Item |-> splitMsg'.Array[i]]]
              /\ Len(splitOut') - Len(splitResults') = IF splitPc' = "emitting" THEN 1 ELSE 0
              /\ \A i \in 1..(Len(splitResults') - 1) : splitResults'[i] = Nil
              /\ splitPc' = "done" =>
                     IF splitResults' # <<>> /\ splitResults'[Len(splitResults')] # Nil
                     THEN ret' = splitResults'[Len(splitResults')]
                     ELSE ret' = Nil /\ Len(splitOut') = Len(splitMsg'.Array)
        /\ (splitPc' # "idle" /\ ~IsInMessage(splitMsg')) =>
              /\ splitPc' = "done"
              /\ splitOut' = <<>>
              /\ ret' # Nil
        /\ (splitPc = "emitting" /\ splitOut' # splitOut) =>
              /\ Len(splitOut') = Len(splitOut) + 1
              /\ SubSeq(splitOut', 1, Len(splitOut)) = splitOut
              /\ Len(splitResults') = Len(splitOut)
              /\ \A i \in 1..Len(splitResults') : splitResults'[i] = Nil
      ]_vars

\* an array of three items whose second emit returned an error: two emits, the error
\* returned
C32_Witness ==
    /\ splitPc = "done"
    /\ IsInMessage(splitMsg)
    /\ Len(splitMsg.Array) = 3
    /\ Len(splitOut) = 2
    /\ splitResults = <<Nil, "downstream error">>
    /\ ret = "downstream error"

RECURSIVE SumCounts(_)
SumCounts(groups) ==
    IF groups = <<>> THEN 0 ELSE Head(groups).Count + SumCounts(Tail(groups))

\* C33: the message group-by emits has total = number of input items, the counts of
\* its groups add up to total, each group's count is the length of its items, and the
\* groups are in ascending string order of their keys
C33_GroupsCountedAndSorted ==
    (node = "groupby" /\ call.port = InPort /\ emits # <<>>) =>
        LET out == emits[1].data
        IN  /\ out.Total = Len(call.msg.Items)
            /\ SumCounts(out.Groups) = out.Total
            /\ \A i \in DOMAIN out.Groups : out.Groups[i].Count = Len(out.Groups[i].Items)
            /\ \A i, j \in DOMAIN out.Groups :
                   i < j => StringLess(out.Groups[i].Key, out.Groups[j].Key)

\* C34: at most one blocking emit on Out is outstanding per signal instance; stated
\* for the emits whose context has not been cancelled (an emit that was cancelled and
\* has yet to return is not counted)
C34_OneBlockingEmit == Cardinality(SigUncancelled) <= 1

\* C39: while a blocking emit on Out is outstanding and not cancelled,
\* activeHandlerCancel is the cancel function of that emit; with no
\* runBlockingHandler goroutine left, activeHandlerCancel is nil
C39_CancelBelongsToEmit ==
    /\ SigUncancelled # {} => activeHandlerCancel \in SigUncancelled
    /\ DOMAIN sigWorkers = {} => activeHandlerCancel = 0

\* the run goroutines that are in their loop, waiting for the next tick or emitting,
\* and not cancelled
CronRunning ==
    { w \in DOMAIN cronWorkers :
          cronWorkers[w].pc \in {"waiting", "emitting"} /\ ~cronWorkers[w].cancelled }

\* C35: after the leader's cron instance has handled a Stop that cancelled the running
\* worker, and until a later Start or resume, no worker is running or emitting on Out
\* (in its loop or in its emit, and not cancelled)
C35_StopEndsWorkers == cronStopped = "cancelled" => CronRunning = {}

\* C38: after the leader has handled a Stop that cancelled the worker, and the worker
\* has ended, a reconcile delivered to the leader whose metadata still contains the
\* running marker starts no worker, for cron and for ticker
C38_StaleReconcileAfterStop ==
    [][ /\ ( /\ node = "cron"
             /\ cronStopped = "cancelled"
             /\ DOMAIN cronWorkers = {}
             /\ call'.port = ReconcilePort /\ call'.leader
             /\ call'.msg.kind = "TinyNode"
             /\ MapHas(call'.msg.Metadata, metadataKeyRunning) )
            => cronWorkers' = cronWorkers
        /\ ( /\ node = "ticker"
             /\ tkStopped = "cancelled"
             /\ DOMAIN tkWorkers = {}
             /\ call'.port = ReconcilePort /\ call'.leader
             /\ call'.msg.kind = "TinyNode"
             /\ MapHas(call'.msg.Metadata, tickerKeyRunning) )
            => tkWorkers' = tkWorkers
      ]_vars

\* the emit goroutines that are in their loop or in their emit, and not cancelled
TkRunning ==
    { w \in DOMAIN tkWorkers :
          tkWorkers[w].pc \in {"running", "emitting"} /\ ~tkWorkers[w].cancelled }

\* C37: after the leader's ticker instance has handled a Stop, whether or not a worker
\* had registered its cancel function by then, and until a later Start or resume, no
\* worker is in its loop or emitting on Out without having been cancelled
C37_StopEndsTicker == tkStopped # "none" => TkRunning = {}

\* C36: no step of a cron, ticker, signal, kv or scheduler instance calls the emit
\* handler while it holds a state mutex of the instance
C36_NoEmitUnderMutex == emits # <<>> => heldAtEmit = {}

\* C40: an async background worker whose emit on Out has returned ends at once with
\* the release of its slot: none is left waiting at the release
C40_WorkerEnds == \A w \in DOMAIN asyncWorkers : asyncWorkers[w].pc # "blocked"

=============================================================================
